---------------------------- MODULE Spec2Model ----------------------------
(***************************************************************************)
(* A model of the OLAP orchestrator (backend/core/orchestrator.py) and of  *)
(* the chat endpoint that drives it (backend/api/main.py).                 *)
(*                                                                         *)
(* Free text (user queries, agent summaries, narratives, exception texts)  *)
(* is a run-length encoded string: a sequence of runs <<ch, n>>, n >= 1,   *)
(* standing for n copies of the character ch.  Identifiers (agent names,   *)
(* operation names, dictionary keys) are TLA+ strings.  An Optional value  *)
(* is a sequence of length 0 (None) or 1.                                  *)
(***************************************************************************)
EXTENDS Integers, Sequences, FiniteSets, TLC

VARIABLES
    history,        \* OLAPOrchestrator._history of the one orchestrator of main.py
    pc,             \* per client: position of its chat request
    req,            \* per client: the ChatRequest being handled
    llm,            \* per client: what the language-model call did (ghost input)
    messages,       \* per client: Optional request `messages` built by _call_llm
    plan,           \* per client: Optional plan returned by _call_llm
    stepIdx,        \* per client: index of the next plan step of the for loop
    run_log,        \* per client: ghost, what agent.run did for each output
    outputs,        \* per client: the local list `outputs`
    steps_executed, \* per client: the local list `steps_executed`
    narrative,      \* per client: Optional narrative of the turn
    result,         \* per client: how the last chat request ended
    calls           \* number of chat requests received so far

vars == <<history, pc, req, llm, messages, plan, stepIdx, run_log,
          outputs, steps_executed, narrative, result, calls>>

-----------------------------------------------------------------------------
(* Bounds of the model *)

\* chat requests per behaviour of the sequential specification
MaxCalls == 5

\* chat requests per behaviour of the concurrent specification
MaxConcCalls == 3

(* Program constants *)

\* self._history[-6:]
HistoryWindow == 6

\* narrative[:500]
NarrativeCut == 500

-----------------------------------------------------------------------------
(* Optional values *)

None == <<>>

Some(x) == <<x>>

IsNone(o) == Len(o) = 0

-----------------------------------------------------------------------------
(* Run-length encoded text *)

\* the text of a sequence of characters
Str(cs) == [i \in 1..Len(cs) |-> <<cs[i], 1>>]

\* n copies of the character ch
Rep(ch, n) == IF n = 0 THEN <<>> ELSE << <<ch, n>> >>

RECURSIVE TextLen(_)
TextLen(t) == IF t = <<>> THEN 0 ELSE Head(t)[2] + TextLen(Tail(t))

\* Python truthiness of a str
Truthy(t) == TextLen(t) > 0

\* the characters of a text, one element per character
RECURSIVE Chars(_)
Chars(t) ==
    IF t = <<>> THEN <<>>
    ELSE [i \in 1..Head(t)[2] |-> Head(t)[1]] \o Chars(Tail(t))

\* t[:n]
RECURSIVE Prefix(_, _)
Prefix(t, n) ==
    IF t = <<>> \/ n <= 0 THEN <<>>
    ELSE IF Head(t)[2] <= n
         THEN <<Head(t)>> \o Prefix(Tail(t), n - Head(t)[2])
         ELSE << <<Head(t)[1], n>> >>

\* sep.join(ts)
RECURSIVE Join(_, _)
Join(sep, ts) ==
    IF ts = <<>> THEN <<>>
    ELSE IF Len(ts) = 1 THEN ts[1]
    ELSE ts[1] \o sep \o Join(sep, Tail(ts))

-----------------------------------------------------------------------------
(* Python / JSON values: dict, list, str, int, bool, None.  A dict is the   *)
(* sequence of its entries in insertion order; a list is a sequence of      *)
(* entries with the empty key.                                              *)

Entry(k, v) == [key |-> k, val |-> v]

VNone == [t |-> "none", i |-> 0, id |-> "", s |-> <<>>, l |-> <<>>]

VBool(b) == [t |-> "bool", i |-> IF b THEN 1 ELSE 0, id |-> "", s |-> <<>>, l |-> <<>>]

VInt(n) == [t |-> "int", i |-> n, id |-> "", s |-> <<>>, l |-> <<>>]

\* a str that is an identifier (agent, operation, dimension or level name)
VId(x) == [t |-> "id", i |-> 0, id |-> x, s |-> <<>>, l |-> <<>>]

\* a str of free text
VStr(text) == [t |-> "str", i |-> 0, id |-> "", s |-> text, l |-> <<>>]

VList(items) ==
    [t |-> "list", i |-> 0, id |-> "", s |-> <<>>,
     l |-> [k \in 1..Len(items) |-> Entry("", items[k])]]

VDict(entries) == [t |-> "dict", i |-> 0, id |-> "", s |-> <<>>, l |-> entries]

HasKey(d, k) == \E n \in 1..Len(d.l) : d.l[n].key = k

\* d.get(k, default) of a dict
Get(d, k, default) ==
    IF HasKey(d, k)
    THEN d.l[CHOOSE n \in 1..Len(d.l) : d.l[n].key = k].val
    ELSE default

\* the items of a list value
Items(v) == [k \in 1..Len(v.l) |-> v.l[k].val]

-----------------------------------------------------------------------------
(* Character-level string functions used by the fallback planner *)

Upper == <<"A","B","C","D","E","F","G","H","I","J","K","L","M","N","O","P","Q","R","S","T","U","V","W","X","Y","Z">>

Lowercase == <<"a","b","c","d","e","f","g","h","i","j","k","l","m","n","o","p","q","r","s","t","u","v","w","x","y","z">>

Digits == <<"0","1","2","3","4","5","6","7","8","9">>

IndexOf(cs, ch) == CHOOSE n \in 1..Len(cs) : cs[n] = ch

InSeq(cs, ch) == \E n \in 1..Len(cs) : cs[n] = ch

LowerChar(ch) == IF InSeq(Upper, ch) THEN Lowercase[IndexOf(Upper, ch)] ELSE ch

UpperChar(ch) == IF InSeq(Lowercase, ch) THEN Upper[IndexOf(Lowercase, ch)] ELSE ch

IsLetter(ch) == InSeq(Upper, ch) \/ InSeq(Lowercase, ch)

\* str.lower()
Lower(cs) == [n \in 1..Len(cs) |-> LowerChar(cs[n])]

\* str.title()
Title(cs) ==
    [n \in 1..Len(cs) |->
        IF n = 1 \/ ~IsLetter(cs[n - 1]) THEN UpperChar(cs[n]) ELSE LowerChar(cs[n])]

\* needle in hay
Contains(hay, needle) ==
    \E n \in 0..(Len(hay) - Len(needle)) : SubSeq(hay, n + 1, n + Len(needle)) = needle

\* str.split(): the maximal runs of non-blank characters
RECURSIVE SplitFrom(_, _, _)
SplitFrom(cs, n, word) ==
    IF n > Len(cs)
    THEN (IF word = <<>> THEN <<>> ELSE <<word>>)
    ELSE IF cs[n] \in {" ", "\n"}
         THEN (IF word = <<>> THEN <<>> ELSE <<word>>) \o SplitFrom(cs, n + 1, <<>>)
         ELSE SplitFrom(cs, n + 1, Append(word, cs[n]))

Split(cs) == SplitFrom(cs, 1, <<>>)

\* characters for which str.isdigit() holds and int() fails
SuperscriptDigits == <<"²">>

\* str.isdigit()
IsDigit(word) ==
    /\ word # <<>>
    /\ \A n \in 1..Len(word) : InSeq(Digits, word[n]) \/ InSeq(SuperscriptDigits, word[n])

\* whether int(word) succeeds, for a word with IsDigit(word)
IntParses(word) == \A n \in 1..Len(word) : InSeq(Digits, word[n])

\* int(word)
RECURSIVE ToInt(_)
ToInt(word) ==
    IF word = <<>> THEN 0
    ELSE 10 * ToInt(SubSeq(word, 1, Len(word) - 1)) + (IndexOf(Digits, word[Len(word)]) - 1)

\* str(n) of an int n >= 0
RECURSIVE IntToChars(_)
IntToChars(n) ==
    IF n < 10 THEN <<Digits[n + 1]>>
    ELSE IntToChars(n \div 10) \o <<Digits[(n % 10) + 1]>>

Min(a, b) == IF a <= b THEN a ELSE b

Max(a, b) == IF a >= b THEN a ELSE b

RECURSIVE MinOf(_)
MinOf(s) == IF Len(s) = 1 THEN s[1] ELSE Min(s[1], MinOf(Tail(s)))

\* mutant of MaxOf: the first element
HeadOf(s) == s[1]

RECURSIVE MaxOf(_)
MaxOf(s) == IF Len(s) = 1 THEN s[1] ELSE Max(s[1], MaxOf(Tail(s)))

-----------------------------------------------------------------------------
(* OLAPOrchestrator._rule_based_plan *)

Step(agent, operation, parameters) ==
    VDict(<< Entry("agent", VId(agent)),
             Entry("operation", VId(operation)),
             Entry("parameters", VDict(parameters)) >>)

\* the filters the planner detects in the lower-cased text q
DetectedFilters(q) ==
    LET years == SelectSeq(<<2022, 2023, 2024>>, LAMBDA y : Contains(q, IntToChars(y)))
        quarters == SelectSeq(<< <<"Q","1">>, <<"Q","2">>, <<"Q","3">>, <<"Q","4">> >>,
                              LAMBDA x : Contains(q, Lower(x)))
        regions == SelectSeq(<< <<"n","o","r","t","h"," ","a","m","e","r","i","c","a">>, <<"e","u","r","o","p","e">>,
                                <<"a","s","i","a"," ","p","a","c","i","f","i","c">>, <<"l","a","t","i","n"," ","a","m","e","r","i","c","a">> >>,
                             LAMBDA x : Contains(q, x))
        categories == SelectSeq(<< <<"e","l","e","c","t","r","o","n","i","c","s">>, <<"f","u","r","n","i","t","u","r","e">>,
                                   <<"o","f","f","i","c","e"," ","s","u","p","p","l","i","e","s">>, <<"c","l","o","t","h","i","n","g">> >>,
                                LAMBDA x : Contains(q, x))
    IN  (IF Len(years) = 1 THEN <<Entry("year", VInt(years[1]))>> ELSE <<>>)
        \o (IF quarters # <<>> THEN <<Entry("quarter", VStr(Str(quarters[1])))>> ELSE <<>>)
        \o (IF regions # <<>> THEN <<Entry("region", VStr(Str(Title(regions[1]))))>> ELSE <<>>)
        \o (IF categories # <<>>
            THEN <<Entry("category", VStr(Str(Title(categories[1]))))>> ELSE <<>>)

MentionedYears(q) == SelectSeq(<<2022, 2023, 2024>>, LAMBDA y : Contains(q, IntToChars(y)))

\* the digit words of q, in order
DigitWords(q) == SelectSeq(Split(q), IsDigit)

\* mutant of MatchedRule: the top rule is tested before the others
MatchedRuleTopFirst(q) ==
    LET Has(k) == Contains(q, k)
        filters == DetectedFilters(q)
    IN  IF Has(<<"t","o","p">>) THEN "top"
        ELSE IF Has(<<"c","o","m","p","a","r","e">>) \/ Has(<<"v","s">>) \/ Has(<<"v","e","r","s","u","s">>) \/ Has(<<"g","r","o","w","t","h">>)
            THEN "compare"
        ELSE IF Has(<<"d","r","i","l","l">>) /\ (Has(<<"d","o","w","n">>) \/ Has(<<"i","n","t","o">>) \/ Has(<<"b","r","e","a","k">>))
            THEN "drill"
        ELSE IF Has(<<"t","r","e","n","d">>) \/ Has(<<"m","o","n","t","h">>) THEN "trend"
        ELSE IF Has(<<"s","l","i","c","e">>) \/ Len(filters) = 1 THEN "slice"
        ELSE IF Has(<<"d","i","c","e">>) \/ Len(filters) >= 2 THEN "dice"
        ELSE IF Has(<<"p","i","v","o","t">>) THEN "pivot"
        ELSE IF Has(<<"a","n","o","m","a","l">>) \/ Has(<<"u","n","u","s","u","a","l">>) \/ Has(<<"o","u","t","l","i","e","r">>) THEN "anomaly"
        ELSE IF Has(<<"m","a","r","g","i","n">>) \/ Has(<<"p","r","o","f","i","t">>) THEN "margin"
        ELSE IF Has(<<"r","e","g","i","o","n">>) \/ Has(<<"r","e","v","e","n","u","e"," ","b","y">>) THEN "region"
        ELSE "none"

\* the name of the first intent rule whose test holds for q, "none" if none does
MatchedRule(q) ==
    LET Has(k) == Contains(q, k)
        filters == DetectedFilters(q)
    IN  IF Has(<<"c","o","m","p","a","r","e">>) \/ Has(<<"v","s">>) \/ Has(<<"v","e","r","s","u","s">>) \/ Has(<<"g","r","o","w","t","h">>)
            THEN "compare"
        ELSE IF Has(<<"d","r","i","l","l">>) /\ (Has(<<"d","o","w","n">>) \/ Has(<<"i","n","t","o">>) \/ Has(<<"b","r","e","a","k">>))
            THEN "drill"
        ELSE IF Has(<<"t","o","p">>) THEN "top"
        ELSE IF Has(<<"t","r","e","n","d">>) \/ Has(<<"m","o","n","t","h">>) \/ Has(<<"m","o","n","t","h","l","y">>) THEN "trend"
        ELSE IF Has(<<"s","l","i","c","e">>) \/ Len(filters) = 1 THEN "slice"
        ELSE IF Has(<<"d","i","c","e">>) \/ Len(filters) >= 2 THEN "dice"
        ELSE IF Has(<<"p","i","v","o","t">>) THEN "pivot"
        ELSE IF Has(<<"a","n","o","m","a","l">>) \/ Has(<<"u","n","u","s","u","a","l">>) \/ Has(<<"o","u","t","l","i","e","r">>) THEN "anomaly"
        ELSE IF Has(<<"m","a","r","g","i","n">>) \/ Has(<<"p","r","o","f","i","t">>) THEN "margin"
        ELSE IF Has(<<"r","e","g","i","o","n">>) \/ Has(<<"r","e","v","e","n","u","e"," ","b","y">>) THEN "region"
        ELSE "none"

\* whether the planner raises on q: int() of the first digit word fails
PlannerRaises(q) ==
    /\ MatchedRule(q) = "top"
    /\ DigitWords(q) # <<>>
    /\ ~IntParses(DigitWords(q)[1])

\* mutant of DrillLevel: a later keyword changes the hierarchy and keeps the
\* level the month test chose
DrillLevelKept(q) ==
    LET Has(k) == Contains(q, k)
        to_level == IF Has(<<"m","o","n","t","h">>) THEN "month" ELSE "quarter"
        geo == Has(<<"c","o","u","n","t","r","y">>) \/ Has(<<"c","o","u","n","t","r">>)
        prod == Has(<<"s","u","b","c","a","t","e","g","o","r">>)
    IN  [ hierarchy |-> IF prod THEN "product" ELSE IF geo THEN "geography" ELSE "time",
          to_level |-> to_level ]

\* the hierarchy and level of the drill rule: time and quarter, then each
\* keyword test overwrites both
DrillLevel(q) ==
    LET Has(k) == Contains(q, k)
        h1 == "time"
        l1 == IF Has(<<"m","o","n","t","h">>) THEN "month" ELSE "quarter"
        geo == Has(<<"c","o","u","n","t","r","y">>) \/ Has(<<"c","o","u","n","t","r">>)
        h2 == IF geo THEN "geography" ELSE h1
        l2 == IF geo THEN "country" ELSE l1
        prod == Has(<<"s","u","b","c","a","t","e","g","o","r">>)
    IN  [ hierarchy |-> IF prod THEN "product" ELSE h2,
          to_level |-> IF prod THEN "subcategory" ELSE l2 ]

\* the analytic steps the matched rule appends, before the `if not steps` default
RuleSteps(q) ==
    LET Has(k) == Contains(q, k)
        years == MentionedYears(q)
        filters == DetectedFilters(q)
        rule == MatchedRule(q)
    IN  CASE rule = "compare" ->
                IF Len(years) >= 2
                THEN << Step("KPICalculator", "compare_periods",
                          << Entry("period_a", VDict(<<Entry("year", VInt(MinOf(years)))>>)),
                             Entry("period_b", VDict(<<Entry("year", VInt(MaxOf(years)))>>)),
                             Entry("group_by",
                                   IF Has(<<"r","e","g","i","o","n">>) THEN VId("region")
                                   ELSE IF Has(<<"c","a","t","e","g","o","r">>) THEN VId("category")
                                   ELSE VNone) >>) >>
                ELSE << Step("KPICalculator", "yoy_growth",
                          << Entry("dimension",
                                   IF Has(<<"r","e","g","i","o","n">>) THEN VId("region") ELSE VNone) >>) >>
          [] rule = "drill" ->
                << Step("DimensionNavigator", "drill_down",
                      << Entry("hierarchy", VId(DrillLevel(q).hierarchy)),
                         Entry("to_level", VId(DrillLevel(q).to_level)),
                         Entry("filters", VDict(filters)) >>) >>
          [] rule = "top" ->
                LET n == IF DigitWords(q) # <<>> THEN ToInt(DigitWords(q)[1]) ELSE 5
                    dimension == IF Has(<<"c","o","u","n","t","r">>) THEN "country"
                                 ELSE IF Has(<<"c","a","t","e","g","o","r">>) THEN "category"
                                 ELSE IF Has(<<"s","u","b">>) THEN "subcategory"
                                 ELSE "region"
                    measure == IF Has(<<"p","r","o","f","i","t">>) THEN "profit" ELSE "revenue"
                IN  << Step("KPICalculator", "top_n",
                          << Entry("n", VInt(n)),
                             Entry("dimension", VId(dimension)),
                             Entry("measure", VId(measure)),
                             Entry("filters", VDict(filters)) >>) >>
          [] rule = "trend" ->
                << Step("ReportGenerator", "trend_report",
                      << Entry("year", VInt(IF years # <<>> THEN years[1] ELSE 2024)) >>) >>
          [] rule = "slice" ->
                LET group_by == IF Has(<<"c","a","t","e","g","o","r","y">>) \/ Has(<<"p","r","o","d","u","c","t">>)
                                THEN "category" ELSE "region"
                IN  << Step("CubeOperations", "slice",
                          << Entry("filter", VDict(filters)),
                             Entry("group_by", VList(<<VId(group_by)>>)) >>) >>
          [] rule = "dice" ->
                LET group_by == IF Has(<<"c","o","u","n","t","r">>) THEN "country"
                                ELSE IF Has(<<"s","u","b">>) THEN "subcategory"
                                ELSE "region"
                IN  << Step("CubeOperations", "dice",
                          << Entry("filters", VDict(filters)),
                             Entry("group_by", VList(<<VId(group_by)>>)) >>) >>
          [] rule = "pivot" ->
                << Step("CubeOperations", "pivot",
                      << Entry("row_dim", VId("region")),
                         Entry("col_dim", VId("year")),
                         Entry("measure", VId("revenue")) >>) >>
          [] rule = "anomaly" ->
                << Step("AnomalyDetection", "monthly_anomaly", <<>>) >>
          [] rule = "margin" ->
                << Step("KPICalculator", "profit_margins",
                      << Entry("dimension",
                               VId(IF Has(<<"c","a","t","e","g","o","r">>) THEN "category" ELSE "region")),
                         Entry("filters", VDict(filters)) >>) >>
          [] rule = "region" ->
                << Step("DimensionNavigator", "group",
                      << Entry("dimensions", VList(<<VId("region")>>)),
                         Entry("filters", VDict(filters)) >>) >>
          [] OTHER -> <<>>

\* mutant of DefaultSteps: no step is added when no rule added one
DefaultStepsNone(steps) == steps

\* the step appended when no rule added one
DefaultSteps(steps) ==
    IF steps = <<>> THEN << Step("KPICalculator", "summary", <<>>) >> ELSE steps

\* the report step appended to every plan
ReportStep == Step("ReportGenerator", "executive_summary", <<>>)

\* mutant of AppendReport: no report step after a ReportGenerator step
AppendReportOnce(steps) ==
    IF Get(steps[Len(steps)], "agent", VNone) = VId("ReportGenerator")
    THEN steps ELSE Append(steps, ReportStep)

AppendReport(steps) == Append(steps, ReportStep)

SuggestedFollowups ==
    VList(<< VStr(Str(<<"W","h","i","c","h"," ","r","e","g","i","o","n"," ","h","a","s"," ","t","h","e"," ","h","i","g","h","e","s","t"," ","g","r","o","w","t","h","?">>)),
             VStr(Str(<<"S","h","o","w"," ","m","e"," ","t","h","e"," ","t","o","p"," ","5"," ","s","u","b","c","a","t","e","g","o","r","i","e","s"," ","b","y"," ","p","r","o","f","i","t">>)),
             VStr(Str(<<"C","o","m","p","a","r","e"," ","2","0","2","3"," ","v","s"," ","2","0","2","4"," ","b","y"," ","c","a","t","e","g","o","r","y">>)) >>)

\* the intent text of a fallback plan
FallbackIntent(query, fallback_error) ==
    Str(<<"A","n","s","w","e","r","i","n","g",":"," ","'">>) \o query \o Str(<<"'">>)
    \o (IF Truthy(fallback_error)
        THEN Str(<<" ","[","r","u","l","e","-","b","a","s","e","d"," ","f","a","l","l","b","a","c","k",":"," ">>) \o fallback_error \o Str(<<"]">>)
        ELSE <<>>)

\* _rule_based_plan(query, fallback_error); defined when ~PlannerRaises
RuleBasedPlan(query, fallback_error) ==
    LET q == Lower(Chars(query))
    IN  VDict(<< Entry("intent", VStr(FallbackIntent(query, fallback_error))),
                 Entry("steps", VList(AppendReport(DefaultSteps(RuleSteps(q))))),
                 Entry("always_include_report", VBool(TRUE)),
                 Entry("suggested_followups", SuggestedFollowups) >>)

-----------------------------------------------------------------------------
(* The orchestrator of backend/api/main.py and its clients *)

Clients == {"a", "b"}

\* the keys of OLAPOrchestrator._agents
RegisteredAgents ==
    {"DimensionNavigator", "CubeOperations", "KPICalculator",
     "ReportGenerator", "Visualization", "AnomalyDetection"}

\* a history entry {"role": ..., "content": ...}; the ghost field `by` names
\* the client whose request wrote the entry
Message(role, content, by) == [role |-> role, content |-> content, by |-> by]

\* mutant of LastN: s[:n]
FirstN(s, n) == IF Len(s) <= n THEN s ELSE SubSeq(s, 1, n)

\* s[-n:]
LastN(s, n) == IF Len(s) <= n THEN s ELSE SubSeq(s, Len(s) - n + 1, Len(s))

\* the `messages` of _call_llm
BuildMessages(h, q, c) == LastN(h, HistoryWindow) \o <<Message("user", q, c)>>

(* What the language-model call does, an input of the turn *)

LlmNone == [kind |-> "none", err |-> <<>>, json |-> VNone]

\* `import anthropic` fails
LlmImportError == [kind |-> "import_error", err |-> <<>>, json |-> VNone]

\* the client call raises an exception with text e
LlmCallError(e) == [kind |-> "call_error", err |-> e, json |-> VNone]

\* the response text is not JSON: json.loads raises an exception with text e
LlmBadJson(e) == [kind |-> "bad_json", err |-> e, json |-> VNone]

\* the response text is the JSON value v
LlmJson(v) == [kind |-> "json", err |-> <<>>, json |-> v]

\* the cases in which _call_llm calls _rule_based_plan
UsesFallback(r) == r.kind \in {"import_error", "call_error", "bad_json"}

\* _call_llm raises: only when _rule_based_plan raises inside the except clause
CallLLMRaises(q, r) == UsesFallback(r) /\ PlannerRaises(Lower(Chars(q)))

\* the value _call_llm returns, when it returns
CallLLMPlan(q, r) == IF UsesFallback(r) THEN RuleBasedPlan(q, r.err) ELSE r.json

\* the steps of a plan: plan.get("steps", [])
PlanSteps(p) == Get(p, "steps", VList(<<>>))

\* whether `for step in steps` can iterate over the value
Iterable(v) == v.t \in {"list", "dict", "str"}

\* the values `for step in steps` yields
IterItems(v) ==
    IF v.t = "list" THEN Items(v)
    ELSE IF v.t = "dict" THEN [k \in 1..Len(v.l) |-> VId(v.l[k].key)]
    ELSE IF v.t = "str" THEN [k \in 1..TextLen(v.s) |-> VStr(Str(<<Chars(v.s)[k]>>))]
    ELSE <<>>

\* process raises before the loop body runs: plan.get on a non-dict, or a
\* plan whose steps cannot be iterated
PlanRejected(p) == p.t # "dict" \/ ~Iterable(PlanSteps(p))

\* the step list of an accepted plan
StepList(p) == IterItems(PlanSteps(p))

\* step.get raises on a step that is not a dict; _agents.get raises on an
\* unhashable agent name
StepRaises(step) ==
    \/ step.t # "dict"
    \/ Get(step, "agent", VStr(<<>>)).t \in {"list", "dict"}

AgentName(step) == Get(step, "agent", VStr(<<>>))

Operation(step) == Get(step, "operation", VStr(<<>>))

\* agent = self._agents.get(agent_name); `if not agent: continue`
Resolves(step) == AgentName(step).t = "id" /\ AgentName(step).id \in RegisteredAgents

(* What agent.run does, an input of the step *)

\* run returns an output for operation op with data of `rows` rows and the summary
RunOk(op, rows, summary) ==
    [kind |-> "ok", op |-> VId(op), rows |-> rows, summary |-> summary, text |-> <<>>]

\* run returns an output for operation op whose error is the text
RunError(op, text) ==
    [kind |-> "error", op |-> VId(op), rows |-> 0, summary |-> <<>>, text |-> text]

\* run raises an exception e with str(e) = text
RunRaise(text) ==
    [kind |-> "raise", op |-> VNone, rows |-> 0, summary |-> <<>>, text |-> text]

\* the AgentOutput of a step (sql and metadata are left out)
AgentOutput(agent, operation, data, summary, error) ==
    [agent |-> agent, operation |-> operation, data |-> data,
     summary |-> summary, error |-> error]

\* the try/except around agent.run
RunStep(step, o) ==
    IF o.kind = "ok"
    THEN AgentOutput(AgentName(step), o.op, Some(o.rows), o.summary, None)
    ELSE IF o.kind = "error"
    THEN AgentOutput(AgentName(step), o.op, None, <<>>, Some(o.text))
    ELSE AgentOutput(AgentName(step), Operation(step), None, <<>>, Some(o.text))

\* mutant of Escapes: the exception of agent.run is not caught
EscapesUncaught(step, o) ==
    StepRaises(step) \/ (Resolves(step) /\ o.kind = "raise")

\* whether an exception leaves the loop body: those of step.get and of
\* _agents.get do, those of agent.run are caught
Escapes(step, o) == StepRaises(step)

\* mutant of LedgerEntry: success is `not output.error`
LedgerEntryTruthy(step, output) ==
    [agent |-> AgentName(step), operation |-> Operation(step),
     success |-> IsNone(output.error) \/ ~Truthy(output.error[1]),
     row_count |-> IF IsNone(output.data) THEN 0 ELSE output.data[1]]

\* the ledger entry of an output
LedgerEntry(step, output) ==
    [agent |-> AgentName(step), operation |-> Operation(step),
     success |-> IsNone(output.error),
     row_count |-> IF IsNone(output.data) THEN 0 ELSE output.data[1]]

\* `not o.error`
NotError(o) == IsNone(o.error) \/ ~Truthy(o.error[1])

\* mutant of Summaries: the summaries of all outputs
SummariesOfAll(outs) == [k \in 1..Len(outs) |-> outs[k].summary]

\* [o.summary for o in outputs if o.summary and not o.error]
Summaries(outs) ==
    LET kept == SelectSeq(outs, LAMBDA o : Truthy(o.summary) /\ NotError(o))
    IN  [k \in 1..Len(kept) |-> kept[k].summary]

NoResults == Str(<<"N","o"," ","r","e","s","u","l","t","s"," ","g","e","n","e","r","a","t","e","d",".">>)

\* the narrative of a turn
Narrative(outs) ==
    IF Summaries(outs) # <<>> THEN Join(Str(<<"\n","\n">>), Summaries(outs)) ELSE NoResults

\* mutant of AssistantEntry: the narrative is not cut
AssistantEntryUncut(text, c) == Message("assistant", text, c)

\* the assistant entry of a turn
AssistantEntry(text, c) == Message("assistant", Prefix(text, NarrativeCut), c)

\* the user entry of a turn
UserEntry(q, c) == Message("user", q, c)

\* a ChatRequest
ChatRequest(q, reset) == [query |-> q, reset_context |-> reset]

(* How a chat request ended *)

NoResult ==
    [status |-> "none", intent |-> VNone, steps_executed |-> <<>>, outputs |-> <<>>,
     narrative |-> <<>>, suggested_followups |-> VNone]

\* process raised; chat answers HTTP 500
Raised ==
    [status |-> "raised", intent |-> VNone, steps_executed |-> <<>>, outputs |-> <<>>,
     narrative |-> <<>>, suggested_followups |-> VNone]

OrchestratorResult(intent, ledger, outs, text, followups) ==
    [status |-> "returned", intent |-> intent, steps_executed |-> ledger,
     outputs |-> outs, narrative |-> text, suggested_followups |-> followups]

-----------------------------------------------------------------------------
(* State *)

Init ==
    /\ history = <<>>
    /\ pc = [c \in Clients |-> "idle"]
    /\ req = [c \in Clients |-> ChatRequest(<<>>, FALSE)]
    /\ llm = [c \in Clients |-> LlmNone]
    /\ messages = [c \in Clients |-> None]
    /\ plan = [c \in Clients |-> None]
    /\ stepIdx = [c \in Clients |-> 0]
    /\ run_log = [c \in Clients |-> <<>>]
    /\ outputs = [c \in Clients |-> <<>>]
    /\ steps_executed = [c \in Clients |-> <<>>]
    /\ narrative = [c \in Clients |-> None]
    /\ result = [c \in Clients |-> NoResult]
    /\ calls = 0

\* the locals of process are gone once it has returned or raised
Locals(c, p, i, outs, ledger, text) ==
    /\ plan' = [plan EXCEPT ![c] = p]
    /\ stepIdx' = [stepIdx EXCEPT ![c] = i]
    /\ outputs' = [outputs EXCEPT ![c] = outs]
    /\ steps_executed' = [steps_executed EXCEPT ![c] = ledger]
    /\ narrative' = [narrative EXCEPT ![c] = text]

Leave(c, res) ==
    /\ pc' = [pc EXCEPT ![c] = "idle"]
    /\ result' = [result EXCEPT ![c] = res]
    /\ Locals(c, None, 0, <<>>, <<>>, None)

\* reset_context
ResetContext == history' = <<>>

\* POST /api/chat up to the call of process.  With `exclusive` the request
\* is accepted only while no other request is in flight.
Chat(c, q, reset, limit, exclusive) ==
    /\ pc[c] = "idle"
    /\ calls < limit
    /\ exclusive => \A d \in Clients : pc[d] = "idle"
    /\ IF reset THEN ResetContext ELSE UNCHANGED history
    /\ pc' = [pc EXCEPT ![c] = "call_llm"]
    /\ req' = [req EXCEPT ![c] = ChatRequest(q, reset)]
    /\ run_log' = [run_log EXCEPT ![c] = <<>>]
    /\ llm' = [llm EXCEPT ![c] = LlmNone]
    /\ messages' = [messages EXCEPT ![c] = None]
    /\ result' = [result EXCEPT ![c] = NoResult]
    /\ calls' = calls + 1
    /\ UNCHANGED <<plan, stepIdx, outputs, steps_executed, narrative>>

\* process: plan = self._call_llm(user_query), up to the head of the loop
CallLLM(c, r) ==
    /\ pc[c] = "call_llm"
    /\ llm' = [llm EXCEPT ![c] = r]
    /\ messages' = [messages EXCEPT ![c] =
                       IF r.kind = "import_error" THEN None
                       ELSE Some(BuildMessages(history, req[c].query, c))]
    /\ IF CallLLMRaises(req[c].query, r) \/ PlanRejected(CallLLMPlan(req[c].query, r))
       THEN Leave(c, Raised)
       ELSE /\ pc' = [pc EXCEPT ![c] = "exec"]
            /\ Locals(c, Some(CallLLMPlan(req[c].query, r)), 1, <<>>, <<>>, None)
            /\ UNCHANGED result
    /\ UNCHANGED <<history, req, run_log, calls>>

\* one iteration of `for step in steps`, agent.run doing o
ExecStep(c, o) ==
    /\ pc[c] = "exec"
    /\ stepIdx[c] <= Len(StepList(plan[c][1]))
    /\ LET step == StepList(plan[c][1])[stepIdx[c]]
       IN  IF Escapes(step, o)
           THEN Leave(c, Raised) /\ UNCHANGED run_log
           ELSE /\ IF Resolves(step)
                   THEN /\ outputs' = [outputs EXCEPT ![c] = Append(@, RunStep(step, o))]
                        /\ steps_executed' =
                              [steps_executed EXCEPT ![c] =
                                  Append(@, LedgerEntry(step, RunStep(step, o)))]
                        /\ run_log' = [run_log EXCEPT ![c] = Append(@, o)]
                   ELSE UNCHANGED <<outputs, steps_executed, run_log>>
                /\ stepIdx' = [stepIdx EXCEPT ![c] = @ + 1]
                /\ UNCHANGED <<pc, plan, narrative, result>>
    /\ UNCHANGED <<history, req, llm, messages, calls>>

\* after the loop: the narrative, and the user entry of the history
AppendUser(c) ==
    /\ pc[c] = "exec"
    /\ stepIdx[c] > Len(StepList(plan[c][1]))
    /\ narrative' = [narrative EXCEPT ![c] = Some(Narrative(outputs[c]))]
    /\ history' = Append(history, UserEntry(req[c].query, c))
    /\ pc' = [pc EXCEPT ![c] = "append"]
    /\ UNCHANGED <<req, llm, messages, plan, stepIdx, run_log, outputs,
                   steps_executed, result, calls>>

\* the assistant entry of the history, and the return of process
AppendAssistant(c) ==
    /\ pc[c] = "append"
    /\ history' = Append(history, AssistantEntry(narrative[c][1], c))
    /\ Leave(c, OrchestratorResult(Get(plan[c][1], "intent", VStr(<<>>)),
                                   steps_executed[c], outputs[c], narrative[c][1],
                                   Get(plan[c][1], "suggested_followups", VList(<<>>))))
    /\ UNCHANGED <<req, llm, messages, run_log, calls>>

-----------------------------------------------------------------------------
(* Inputs *)

ShortSummary == Str(<<"T","o","t","a","l"," ","r","e","v","e","n","u","e",":"," ","$","1",".","0","0">>)

\* a summary longer than the cut of the history
LongSummary == Rep("x", NarrativeCut + 100)

\* the plans of a well-behaved language model
PlanOf(steps) ==
    VDict(<< Entry("intent", VStr(Str(<<"o","v","e","r","v","i","e","w">>))),
             Entry("steps", VList(steps)),
             Entry("suggested_followups", VList(<<>>)) >>)

KpiStep == Step("KPICalculator", "summary", <<>>)

ChartStep == Step("Visualization", "visualize", <<>>)

\* a step naming an agent that is not registered
UnknownStep == Step("Forecaster", "predict", <<>>)

\* a step with no "agent" key
AnonymousStep == VDict(<< Entry("operation", VId("summary")) >>)

(* The sequential specification: one client, one request at a time *)

SeqClients == {"a"}

SeqQueries == { Str(<<"t","o","p"," ","3"," ","r","e","g","i","o","n","s">>), Str(<<"H","o","w"," ","a","r","e"," ","s","a","l","e","s","?">>) }

SeqResponses ==
    { LlmImportError,
      LlmCallError(Str(<<"c","o","n","n","e","c","t","i","o","n"," ","r","e","f","u","s","e","d">>)),
      LlmBadJson(Str(<<"E","x","p","e","c","t","i","n","g"," ","v","a","l","u","e">>)),
      LlmJson(PlanOf(<<KpiStep>>)),
      LlmJson(VDict(<< Entry("intent", VStr(Str(<<"o","v","e","r","v","i","e","w">>))) >>)),
      LlmJson(VDict(<< Entry("steps", VNone) >>)),
      LlmJson(VList(<<>>)),
      LlmJson(PlanOf(<< VStr(Str(<<"s","u","m","m","a","r","y">>)) >>)) }

SeqOutcomes == { RunOk("summary", 1, LongSummary), RunRaise(Str(<<"n","o"," ","s","u","c","h"," ","t","a","b","l","e">>)) }

SeqNext ==
    \E c \in SeqClients :
        \/ \E q \in SeqQueries, reset \in BOOLEAN : Chat(c, q, reset, MaxCalls, TRUE)
        \/ \E r \in SeqResponses : CallLLM(c, r)
        \/ \E o \in SeqOutcomes : ExecStep(c, o)
        \/ AppendUser(c)
        \/ AppendAssistant(c)

SeqSpec == Init /\ [][SeqNext]_vars

(* Long sessions of one client: many turns, few inputs *)

MaxLongCalls == 7

LongResponses == { LlmImportError }

LongOutcomes == { RunOk("summary", 1, ShortSummary) }

LongNext ==
    \E c \in SeqClients :
        \/ \E q \in SeqQueries, reset \in BOOLEAN : Chat(c, q, reset, MaxLongCalls, TRUE)
        \/ \E r \in LongResponses : CallLLM(c, r)
        \/ \E o \in LongOutcomes : ExecStep(c, o)
        \/ AppendUser(c)
        \/ AppendAssistant(c)

LongSpec == Init /\ [][LongNext]_vars

(* The concurrent specification: the clients of the one orchestrator of    *)
(* main.py, whose endpoint runs requests on a thread pool                   *)

ConcQueries == { Str(<<"s","a","l","e","s"," ","b","y"," ","r","e","g","i","o","n">>) }

ConcResponses == { LlmImportError, LlmJson(PlanOf(<<KpiStep>>)) }

ConcOutcomes == { RunOk("summary", 4, ShortSummary) }

Next ==
    \E c \in Clients :
        \/ \E q \in ConcQueries, reset \in BOOLEAN : Chat(c, q, reset, MaxConcCalls, FALSE)
        \/ \E r \in ConcResponses : CallLLM(c, r)
        \/ \E o \in ConcOutcomes : ExecStep(c, o)
        \/ AppendUser(c)
        \/ AppendAssistant(c)

Spec == Init /\ [][Next]_vars

(* The clients of the one orchestrator taking turns: requests do not overlap *)

TurnsNext ==
    \E c \in Clients :
        \/ \E q \in ConcQueries, reset \in BOOLEAN : Chat(c, q, reset, MaxConcCalls, TRUE)
        \/ \E r \in ConcResponses : CallLLM(c, r)
        \/ \E o \in ConcOutcomes : ExecStep(c, o)
        \/ AppendUser(c)
        \/ AppendAssistant(c)

TurnsSpec == Init /\ [][TurnsNext]_vars

(* The executor's specification: one call of process on each plan *)

MaxPlanLen == 3

ExecSteps == { KpiStep, ChartStep, UnknownStep, AnonymousStep }

ExecPlans == UNION { [1..n -> ExecSteps] : n \in 0..MaxPlanLen }

ExecResponses == { LlmJson(PlanOf(p)) : p \in ExecPlans }

ExecOutcomes ==
    { RunOk("summary", 3, ShortSummary), RunOk("visualize", 0, LongSummary),
      RunError("predict", Str(<<"U","n","k","n","o","w","n"," ","o","p">>)),
      RunRaise(Str(<<"n","o"," ","s","u","c","h"," ","t","a","b","l","e">>)), RunRaise(<<>>) }

ExecInit ==
    /\ history = <<>>
    /\ pc = [c \in Clients |-> IF c = "a" THEN "call_llm" ELSE "idle"]
    /\ req = [c \in Clients |->
                 ChatRequest(IF c = "a" THEN Str(<<"o","v","e","r","v","i","e","w">>) ELSE <<>>, FALSE)]
    /\ llm = [c \in Clients |-> LlmNone]
    /\ messages = [c \in Clients |-> None]
    /\ plan = [c \in Clients |-> None]
    /\ stepIdx = [c \in Clients |-> 0]
    /\ run_log = [c \in Clients |-> <<>>]
    /\ outputs = [c \in Clients |-> <<>>]
    /\ steps_executed = [c \in Clients |-> <<>>]
    /\ narrative = [c \in Clients |-> None]
    /\ result = [c \in Clients |-> NoResult]
    /\ calls = 1

ExecNext ==
    \E c \in SeqClients :
        \/ \E r \in ExecResponses : CallLLM(c, r)
        \/ \E o \in ExecOutcomes : ExecStep(c, o)
        \/ AppendUser(c)
        \/ AppendAssistant(c)

ExecSpec == ExecInit /\ [][ExecNext]_vars

(* The fallback planner's specification: _call_llm falling back on each text *)

Phrases ==
    { <<"C","o","m","p","a","r","e">>, <<"2","0","2","3"," ","a","n","d"," ","2","0","2","4"," ","b","y"," ","r","e","g","i","o","n">>, <<"2","0","2","4"," ","v","e","r","s","u","s"," ","2","0","2","2">>, <<"2","0","2","2">>,
      <<"g","r","o","w","t","h">>, <<"b","y"," ","r","e","g","i","o","n">>, <<"c","a","t","e","g","o","r","i","e","s">>, <<"d","r","i","l","l"," ","d","o","w","n">>, <<"d","r","i","l","l"," ","i","n","t","o"," ","m","o","n","t","h","s">>,
      <<"m","o","n","t","h","l","y">>, <<"c","o","u","n","t","r","y">>, <<"s","u","b","c","a","t","e","g","o","r","y">>, <<"c","o","u","n","t","r","y"," ","s","u","b","c","a","t","e","g","o","r","y">>, <<"T","O","P">>, <<"t","o","p"," ","3">>, <<"²">>,
      <<"p","r","o","f","i","t">>, <<"t","r","e","n","d">>, <<"s","l","i","c","e">>, <<"d","i","c","e">>, <<"p","i","v","o","t">>,
      <<"o","u","t","l","i","e","r">>, <<"m","a","r","g","i","n">>, <<"r","e","v","e","n","u","e"," ","b","y">>, <<"Q","1">>, <<"E","u","r","o","p","e">>,
      <<"O","f","f","i","c","e"," ","S","u","p","p","l","i","e","s">>, <<"s","a","l","e","s">> }

MaxPhrases == 2

\* the texts of 1..MaxPhrases phrases joined by blanks
RECURSIVE JoinChars(_)
JoinChars(ps) ==
    IF Len(ps) = 1 THEN ps[1] ELSE ps[1] \o <<" ">> \o JoinChars(Tail(ps))

Texts == { Str(JoinChars(ps)) : ps \in UNION { [1..n -> Phrases] : n \in 1..MaxPhrases } }

FallbackResponses == { LlmImportError, LlmBadJson(Str(<<"E","x","p","e","c","t","i","n","g"," ","v","a","l","u","e">>)) }

FallbackInit ==
    /\ history = <<>>
    /\ pc = [c \in Clients |-> IF c = "a" THEN "call_llm" ELSE "idle"]
    /\ req \in { [c \in Clients |-> ChatRequest(IF c = "a" THEN t ELSE <<>>, FALSE)] :
                   t \in Texts }
    /\ llm = [c \in Clients |-> LlmNone]
    /\ messages = [c \in Clients |-> None]
    /\ plan = [c \in Clients |-> None]
    /\ stepIdx = [c \in Clients |-> 0]
    /\ run_log = [c \in Clients |-> <<>>]
    /\ outputs = [c \in Clients |-> <<>>]
    /\ steps_executed = [c \in Clients |-> <<>>]
    /\ narrative = [c \in Clients |-> None]
    /\ result = [c \in Clients |-> NoResult]
    /\ calls = 1

FallbackNext == \E c \in SeqClients, r \in FallbackResponses : CallLLM(c, r)

FallbackSpec == FallbackInit /\ [][FallbackNext]_vars

-----------------------------------------------------------------------------
(* Properties of the plan executor (ExecSpec) *)

\* the plan steps whose agent resolves, in plan order
ResolvedSteps(steps) == SelectSeq(steps, Resolves)

\* the outputs of client c: those of the running call, or of the finished one
OutputsOf(c) == IF pc[c] = "idle" THEN result[c].outputs ELSE outputs[c]

\* the steps of the plan the language model gave client c
GivenSteps(c) == StepList(llm[c].json)

\* C1: when agent.run raises in a step whose agent resolves, the step yields an
\* output whose error is the exception text and which has no result table;
\* the call is never aborted, and when it returns every resolving step of
\* the plan, also those after the failing one, has been executed in plan order.
StepFailureIsolated ==
    \A c \in SeqClients :
        /\ result[c].status # "raised"
        /\ Len(run_log[c]) = Len(OutputsOf(c))
        /\ \A k \in 1..Len(OutputsOf(c)) :
              run_log[c][k].kind = "raise" =>
                  /\ OutputsOf(c)[k].error = Some(run_log[c][k].text)
                  /\ IsNone(OutputsOf(c)[k].data)
        /\ pc[c] = "exec" =>
              Len(outputs[c]) =
                  Len(ResolvedSteps(SubSeq(StepList(plan[c][1]), 1, stepIdx[c] - 1)))
        /\ result[c].status = "returned" =>
              /\ Len(result[c].steps_executed) = Len(ResolvedSteps(GivenSteps(c)))
              /\ \A k \in 1..Len(result[c].steps_executed) :
                    /\ result[c].steps_executed[k].agent
                          = AgentName(ResolvedSteps(GivenSteps(c))[k])
                    /\ result[c].steps_executed[k].operation
                          = Operation(ResolvedSteps(GivenSteps(c))[k])

\* C1 witness: a call has returned in which the first executed step raised
\* and a later step succeeded
StepFailureIsolatedWitness ==
    \E c \in SeqClients :
        /\ result[c].status = "returned"
        /\ Len(run_log[c]) >= 2
        /\ run_log[c][1].kind = "raise"
        /\ Truthy(run_log[c][1].text)
        /\ result[c].steps_executed[2].success

\* C2: after process returns, outputs and steps_executed have the length of
\* the plan's resolving steps, entry i of both belongs to the i-th resolving
\* step, a step with an unknown agent is skipped without an error, and
\* success is true exactly when the output's error is None.
LedgerMatchesOutputs ==
    \A c \in SeqClients :
        /\ result[c].status # "raised"
        /\ result[c].status = "returned" =>
              LET rs == ResolvedSteps(GivenSteps(c))
                  outs == result[c].outputs
                  ledger == result[c].steps_executed
              IN  /\ Len(outs) = Len(rs)
                  /\ Len(ledger) = Len(rs)
                  /\ \A k \in 1..Len(rs) :
                        /\ outs[k].agent = AgentName(rs[k])
                        /\ ledger[k].agent = AgentName(rs[k])
                        /\ ledger[k].operation = Operation(rs[k])
                        /\ ledger[k].success <=> (outs[k].error = None)

\* C2 witness: a plan of a failing step, an unknown agent's step and a
\* succeeding step has returned 2 outputs and the ledger false, true
LedgerMatchesOutputsWitness ==
    \E c \in SeqClients :
        /\ result[c].status = "returned"
        /\ Len(GivenSteps(c)) = 3
        /\ ~Resolves(GivenSteps(c)[2])
        /\ Len(result[c].outputs) = 2
        /\ ~result[c].steps_executed[1].success
        /\ result[c].steps_executed[2].success

\* the summaries joined by a blank line
RECURSIVE JoinedSummaries(_)
JoinedSummaries(outs) ==
    IF Len(outs) = 1 THEN outs[1].summary
    ELSE outs[1].summary \o Str(<<"\n","\n">>) \o JoinedSummaries(Tail(outs))

\* the outputs with no error and a non-empty summary
Successes(outs) == SelectSeq(outs, LAMBDA o : o.error = None /\ o.summary # <<>>)

\* C3: the narrative of a returned call is the summaries of the outputs with
\* no error and a non-empty summary, joined in plan order, and it is the
\* placeholder exactly when there is no such output.
NarrativeOfSuccesses ==
    \A c \in SeqClients :
        result[c].status = "returned" =>
            /\ (Successes(result[c].outputs) = <<>>) <=> (result[c].narrative = NoResults)
            /\ Successes(result[c].outputs) # <<>> =>
                  result[c].narrative = JoinedSummaries(Successes(result[c].outputs))

\* C3 witness: a call has returned with a succeeding, a failing and a
\* succeeding step, and a narrative of the two summaries
NarrativeOfSuccessesWitness ==
    \E c \in SeqClients :
        /\ result[c].status = "returned"
        /\ Len(result[c].outputs) = 3
        /\ result[c].outputs[1].error = None
        /\ result[c].outputs[2].error # None
        /\ result[c].outputs[3].error = None
        /\ result[c].narrative =
              result[c].outputs[1].summary \o Str(<<"\n","\n">>) \o result[c].outputs[3].summary

-----------------------------------------------------------------------------
(* Properties of the planner's failure handling (SeqSpec) *)

\* a response that is JSON but no plan: not an object, or an object without steps
MalformedJson(r) == r.kind = "json" /\ (r.json.t # "dict" \/ ~HasKey(r.json, "steps"))

\* the language model is missing, its call fails, or its response is malformed
PlannerFailed(r) == UsesFallback(r) \/ MalformedJson(r)

\* C4: whenever the external planner fails (not installed, call error,
\* non-JSON text, JSON without steps, JSON that is no object), process does
\* not raise and the plan it executes is the fallback plan of the user text.
PlannerFailureRecovered ==
    \A c \in SeqClients :
        PlannerFailed(llm[c]) =>
            /\ result[c].status # "raised"
            /\ pc[c] \in {"exec", "append"} =>
                  PlanSteps(plan[c][1]) = PlanSteps(RuleBasedPlan(req[c].query, <<>>))

-----------------------------------------------------------------------------
(* Properties of the Conversation State *)

\* C5: the orchestrator's history holds at most the last 6 turns (12 entries).
HistoryBounded == Len(history) <= 2 * HistoryWindow

\* the message without its ghost field
Plain(m) == [role |-> m.role, content |-> m.content]

AllIdle == \A c \in Clients : pc[c] = "idle"

\* the history is a sequence of (user, assistant) pairs
HistoryAlternates ==
    /\ Len(history) % 2 = 0
    /\ \A k \in 1..Len(history) :
          history[k].role = IF k % 2 = 1 THEN "user" ELSE "assistant"

\* what one step of process may do to the history
TurnStep(c) ==
    /\ pc[c] = "call_llm" => history' = history
    /\ (pc[c] = "exec" /\ pc'[c] # "append") => history' = history
    /\ (pc[c] = "exec" /\ pc'[c] = "append") =>
          /\ stepIdx[c] > Len(StepList(plan[c][1]))
          /\ Len(history') = Len(history) + 1
          /\ SubSeq(history', 1, Len(history)) = history
          /\ Plain(history'[Len(history')]) = [role |-> "user", content |-> req[c].query]
    /\ pc[c] = "append" =>
          /\ pc'[c] = "idle"
          /\ result'[c].status = "returned"
          /\ Len(history') = Len(history) + 1
          /\ SubSeq(history', 1, Len(history)) = history
          /\ Plain(history'[Len(history')]) =
                [role |-> "assistant", content |-> Prefix(result'[c].narrative, 500)]
          /\ TextLen(history'[Len(history')].content) <= 500
    /\ (result[c].status # "returned" /\ result'[c].status = "returned") => pc[c] = "append"

\* C7: a process call that returns appends exactly two entries, after all
\* plan steps have run: the user text, then the narrative cut to 500
\* characters, also when every step failed or the fallback planner was used;
\* between calls the history has even length and alternates user, assistant.
TurnAppended ==
    /\ [](AllIdle => HistoryAlternates)
    /\ [][\A c \in SeqClients : TurnStep(c)]_vars

\* C7 witness: after a turn whose narrative was longer than the cut, a turn
\* of the fallback planner in which every step failed has been recorded
TurnAppendedWitness ==
    \E c \in SeqClients :
        /\ result[c].status = "returned"
        /\ UsesFallback(llm[c])
        /\ Len(result[c].outputs) = 2
        /\ \A k \in 1..2 : ~result[c].steps_executed[k].success
        /\ Len(history) = 4
        /\ TextLen(history[2].content) = 500
        /\ Plain(history[3]) = [role |-> "user", content |-> req[c].query]
        /\ Plain(history[4]) = [role |-> "assistant", content |-> NoResults]

-----------------------------------------------------------------------------
(* Properties of the sessions sharing the orchestrator (Spec) *)

\* C8: a chat request with reset_context = true leaves, when it ends, a
\* history of exactly its own turn.
ResetLeavesOneTurn ==
    [][\A c \in Clients :
          (pc[c] # "idle" /\ pc'[c] = "idle" /\ req[c].reset_context) =>
              /\ Len(history') = 2
              /\ history'[1] = UserEntry(req[c].query, c)
              /\ history'[2].role = "assistant"
              /\ history'[2].by = c]_vars

\* C9: the planner context of a client holds only that client's own turns,
\* and the two entries of a turn are never split by another turn's entries.
SessionIsolation ==
    /\ \A c \in Clients :
          ~IsNone(messages[c]) =>
              \A k \in 1..Len(messages[c][1]) : messages[c][1][k].by = c
    /\ \A k \in 1..Len(history) :
          (history[k].role = "user" /\ k < Len(history)) =>
              (history[k + 1].role = "assistant" /\ history[k + 1].by = history[k].by)

-----------------------------------------------------------------------------
(* Properties of the fallback planner (FallbackSpec) *)

\* C10: the last step of every plan the fallback planner returns is the
\* ReportGenerator executive_summary step, whichever rule matched.
ReportStepLast ==
    \A c \in SeqClients :
        (pc[c] = "exec" /\ UsesFallback(llm[c])) =>
            LET steps == StepList(plan[c][1])
            IN  /\ Len(steps) >= 1
                /\ AgentName(steps[Len(steps)]) = VId("ReportGenerator")
                /\ Operation(steps[Len(steps)]) = VId("executive_summary")

\* C10 witness: the fallback planner has returned the plan of a text for
\* which the trend rule matched, a ReportGenerator step followed by the report
ReportStepLastWitness ==
    \E c \in SeqClients :
        /\ pc[c] = "exec"
        /\ UsesFallback(llm[c])
        /\ MatchedRule(Lower(Chars(req[c].query))) = "trend"
        /\ Len(StepList(plan[c][1])) = 2
        /\ Operation(StepList(plan[c][1])[1]) = VId("trend_report")
        /\ Operation(StepList(plan[c][1])[2]) = VId("executive_summary")


\* the intent rules in the order the planner tests them
RuleOrder ==
    <<"compare", "drill", "top", "trend", "slice", "dice", "pivot", "anomaly",
      "margin", "region">>

\* the test of an intent rule on the lower-cased text q
RuleTest(rule, q) ==
    LET Has(k) == Contains(q, k)
        nfilters == Len(DetectedFilters(q))
    IN  CASE rule = "compare" ->
                Has(<<"c","o","m","p","a","r","e">>) \/ Has(<<"v","s">>) \/ Has(<<"v","e","r","s","u","s">>) \/ Has(<<"g","r","o","w","t","h">>)
          [] rule = "drill" ->
                Has(<<"d","r","i","l","l">>) /\ (Has(<<"d","o","w","n">>) \/ Has(<<"i","n","t","o">>) \/ Has(<<"b","r","e","a","k">>))
          [] rule = "top" -> Has(<<"t","o","p">>)
          [] rule = "trend" -> Has(<<"t","r","e","n","d">>) \/ Has(<<"m","o","n","t","h">>)
          [] rule = "slice" -> Has(<<"s","l","i","c","e">>) \/ nfilters = 1
          [] rule = "dice" -> Has(<<"d","i","c","e">>) \/ nfilters >= 2
          [] rule = "pivot" -> Has(<<"p","i","v","o","t">>)
          [] rule = "anomaly" -> Has(<<"a","n","o","m","a","l">>) \/ Has(<<"u","n","u","s","u","a","l">>) \/ Has(<<"o","u","t","l","i","e","r">>)
          [] rule = "margin" -> Has(<<"m","a","r","g","i","n">>) \/ Has(<<"p","r","o","f","i","t">>)
          [] rule = "region" -> Has(<<"r","e","g","i","o","n">>) \/ Has(<<"r","e","v","e","n","u","e"," ","b","y">>)

\* the operations an intent rule plans
RuleOperations(rule) ==
    CASE rule = "compare" -> {"compare_periods", "yoy_growth"}
      [] rule = "drill" -> {"drill_down"}
      [] rule = "top" -> {"top_n"}
      [] rule = "trend" -> {"trend_report"}
      [] rule = "slice" -> {"slice"}
      [] rule = "dice" -> {"dice"}
      [] rule = "pivot" -> {"pivot"}
      [] rule = "anomaly" -> {"monthly_anomaly"}
      [] rule = "margin" -> {"profit_margins"}
      [] rule = "region" -> {"group"}
      [] OTHER -> {"summary"}

\* the first rule of RuleOrder whose test holds for q
FirstHolding(q) ==
    LET holding == SelectSeq(RuleOrder, LAMBDA r : RuleTest(r, q))
    IN  IF holding = <<>> THEN "none" ELSE holding[1]

\* C11: the fallback plan has one analytic step, that of the first rule in
\* the order comparison, drill, top, trend, slice, dice, pivot, anomaly,
\* margin, region whose test holds for the text (the summary step when none
\* holds), followed by the report step.
RulePriority ==
    \A c \in SeqClients :
        (pc[c] = "exec" /\ UsesFallback(llm[c])) =>
            LET q == Lower(Chars(req[c].query))
                steps == StepList(plan[c][1])
            IN  /\ Len(steps) = 2
                /\ Operation(steps[1]).id \in RuleOperations(FirstHolding(q))

\* C11 witness: the plan of a text containing both 'compare' and 'top' has a
\* yoy_growth step and no top_n step
RulePriorityWitness ==
    \E c \in SeqClients :
        /\ pc[c] = "exec"
        /\ UsesFallback(llm[c])
        /\ Contains(Lower(Chars(req[c].query)), <<"c","o","m","p","a","r","e">>)
        /\ Contains(Lower(Chars(req[c].query)), <<"t","o","p">>)
        /\ Operation(StepList(plan[c][1])[1]) = VId("yoy_growth")
        /\ \A k \in 1..Len(StepList(plan[c][1])) :
              Operation(StepList(plan[c][1])[k]) # VId("top_n")

\* the years 2022..2024 whose digits occur in q
YearsIn(q) ==
    {y \in {2022, 2023, 2024} :
        Contains(q, CASE y = 2022 -> <<"2","0","2","2">> [] y = 2023 -> <<"2","0","2","3">> [] OTHER -> <<"2","0","2","4">>)}

\* C12: for a text with a comparison keyword that mentions at least two of
\* the years 2022..2024, the first step of the fallback plan is KPICalculator
\* compare_periods with period_a the earliest and period_b the latest
\* mentioned year, and group_by region, else category, else none.
ComparePeriodsStep ==
    \A c \in SeqClients :
        LET q == Lower(Chars(req[c].query))
            Has(k) == Contains(q, k)
        IN  (/\ pc[c] = "exec"
             /\ UsesFallback(llm[c])
             /\ Has(<<"c","o","m","p","a","r","e">>) \/ Has(<<"v","s">>) \/ Has(<<"v","e","r","s","u","s">>) \/ Has(<<"g","r","o","w","t","h">>)
             /\ Cardinality(YearsIn(q)) >= 2) =>
                LET step == StepList(plan[c][1])[1]
                    parameters == Get(step, "parameters", VNone)
                    earliest == CHOOSE y \in YearsIn(q) : \A z \in YearsIn(q) : y <= z
                    latest == CHOOSE y \in YearsIn(q) : \A z \in YearsIn(q) : y >= z
                IN  /\ AgentName(step) = VId("KPICalculator")
                    /\ Operation(step) = VId("compare_periods")
                    /\ Get(parameters, "period_a", VNone)
                          = VDict(<<Entry("year", VInt(earliest))>>)
                    /\ Get(parameters, "period_b", VNone)
                          = VDict(<<Entry("year", VInt(latest))>>)
                    /\ Get(parameters, "group_by", VInt(0))
                          = IF Has(<<"r","e","g","i","o","n">>) THEN VId("region")
                            ELSE IF Has(<<"c","a","t","e","g","o","r">>) THEN VId("category")
                            ELSE VNone

\* C12 witness: the plan of 'Compare 2023 and 2024 by region' starts with
\* compare_periods of 2023 and 2024 grouped by region
ComparePeriodsStepWitness ==
    \E c \in SeqClients :
        /\ pc[c] = "exec"
        /\ UsesFallback(llm[c])
        /\ req[c].query = Str(<<"C","o","m","p","a","r","e"," ","2","0","2","3"," ","a","n","d"," ","2","0","2","4"," ","b","y"," ","r","e","g","i","o","n">>)
        /\ StepList(plan[c][1])[1] =
              Step("KPICalculator", "compare_periods",
                   << Entry("period_a", VDict(<<Entry("year", VInt(2023))>>)),
                      Entry("period_b", VDict(<<Entry("year", VInt(2024))>>)),
                      Entry("group_by", VId("region")) >>)

-----------------------------------------------------------------------------
(* The star schema and the queries of the agents (backend/core/database.py) *)
(* A fact row is a row of fact_sales joined with its four dimension rows.   *)
(* Amounts are whole numbers; averages and percentages are in hundredths.   *)

\* rows of the fact table available to a database
MaxRows == 10

Fact(year, region, country, category, subcategory, revenue, profit) ==
    [year |-> year, quarter |-> "Q1", quarter_num |-> 1, month |-> 1,
     month_name |-> "January", region |-> region, country |-> country,
     category |-> category, subcategory |-> subcategory,
     customer_segment |-> "Consumer", revenue |-> revenue, profit |-> profit,
     quantity |-> 1, cost |-> revenue - profit,
     profit_margin |-> IF revenue = 0 THEN 0 ELSE (profit * 100) \div revenue]

FactRows ==
    << Fact(2022, "Europe", "France", "Electronics", "Phones", 100, 20),
       Fact(2023, "Europe", "Germany", "Electronics", "Laptops", 150, 30),
       Fact(2024, "Europe", "Spain", "Furniture", "Chairs", 120, 12),
       Fact(2022, "Asia Pacific", "Japan", "Furniture", "Desks", 0, 0),
       Fact(2023, "Asia Pacific", "China", "Electronics", "Phones", 80, 8),
       Fact(2024, "Asia Pacific", "India", "Clothing", "Shirts", 60, 30),
       Fact(2023, "North America", "USA", "Clothing", "Shoes", 200, 50),
       Fact(2024, "North America", "Canada", "Furniture", "Desks", 40, 4),
       Fact(2024, "Latin America", "Mexico", "Clothing", "Shirts", 30, 6),
       Fact(2024, "Latin America", "Brazil", "Electronics", "Laptops", 10, 1),
       Fact(2024, "Europe", "Italy", "Furniture", "Chairs", 70, 7),
       Fact(2022, "Latin America", "Chile", "Clothing", "Shoes", 90, 9) >>

\* the concatenation of a sequence of sequences
RECURSIVE Flatten(_)
Flatten(ss) == IF ss = <<>> THEN <<>> ELSE Head(ss) \o Flatten(Tail(ss))

\* the elements of a sequence without repetitions, in order of first appearance
Distinct(s) ==
    LET firsts == { i \in 1..Len(s) : \A j \in 1..(i - 1) : s[j] # s[i] }
    IN  [k \in 1..Cardinality(firsts) |->
            s[CHOOSE i \in firsts : Cardinality({ j \in firsts : j < i }) = k - 1]]

\* the position of an element in a sequence that holds it
KeyIn(s, x) == CHOOSE k \in 1..Len(s) : s[k] = x

\* strftime("%Y%m%d") of the order date of a sale, the first day of its month
DateKey(sale) == sale.year * 10000 + sale.month * 100 + 1

\* run_etl: the four dimension tables and the fact table of a file of sales.
\* A dimension row is inserted once per distinct combination of its columns
\* (INSERT OR IGNORE, keys counted from 1; the date key comes from the date),
\* and a sale holds the keys of its four dimension rows
RunEtl(csv) ==
    LET dates == Distinct([i \in 1..Len(csv) |->
                     [date_key |-> DateKey(csv[i]), year |-> csv[i].year,
                      quarter |-> csv[i].quarter, quarter_num |-> csv[i].quarter_num,
                      month |-> csv[i].month, month_name |-> csv[i].month_name]])
        geos == Distinct([i \in 1..Len(csv) |->
                     [region |-> csv[i].region, country |-> csv[i].country]])
        prods == Distinct([i \in 1..Len(csv) |->
                     [category |-> csv[i].category, subcategory |-> csv[i].subcategory]])
        custs == Distinct([i \in 1..Len(csv) |-> csv[i].customer_segment])
    IN  [dim_date |-> SelectSeq(dates, LAMBDA d :
                         d = dates[CHOOSE k \in 1..Len(dates) :
                                     /\ dates[k].date_key = d.date_key
                                     /\ \A j \in 1..(k - 1) : dates[j].date_key # d.date_key]),
         dim_geography |-> [k \in 1..Len(geos) |->
                               [geo_key |-> k, region |-> geos[k].region,
                                country |-> geos[k].country]],
         dim_product |-> [k \in 1..Len(prods) |->
                             [product_key |-> k, category |-> prods[k].category,
                              subcategory |-> prods[k].subcategory]],
         dim_customer |-> [k \in 1..Len(custs) |->
                              [customer_key |-> k, customer_segment |-> custs[k]]],
         fact_sales |-> [i \in 1..Len(csv) |->
                            [sale_id |-> i, date_key |-> DateKey(csv[i]),
                             geo_key |-> KeyIn(geos, [region |-> csv[i].region,
                                                      country |-> csv[i].country]),
                             product_key |-> KeyIn(prods, [category |-> csv[i].category,
                                                           subcategory |-> csv[i].subcategory]),
                             customer_key |-> KeyIn(custs, csv[i].customer_segment),
                             quantity |-> csv[i].quantity, revenue |-> csv[i].revenue,
                             cost |-> csv[i].cost, profit |-> csv[i].profit,
                             profit_margin |-> csv[i].profit_margin]]]

\* mutant of GeographyOf: dim_geography joined on the region of the sale's
\* geography row instead of its key
GeographyOfRegion(tables, f) ==
    SelectSeq(tables.dim_geography,
              LAMBDA g : \E h \in 1..Len(tables.dim_geography) :
                             /\ tables.dim_geography[h].geo_key = f.geo_key
                             /\ tables.dim_geography[h].region = g.region)

\* JOIN dim_geography g ON f.geo_key = g.geo_key: the rows a sale joins
GeographyOf(tables, f) ==
    SelectSeq(tables.dim_geography, LAMBDA g : g.geo_key = f.geo_key)

\* FROM fact_sales f JOIN dim_date d JOIN dim_geography g JOIN dim_product p
\* JOIN dim_customer c, each on its key: one row per combination of a sale
\* with a matching row of each dimension table
JoinedRows(tables) ==
    Flatten([i \in 1..Len(tables.fact_sales) |->
        LET f == tables.fact_sales[i]
            ds == SelectSeq(tables.dim_date, LAMBDA d : d.date_key = f.date_key)
            gs == GeographyOf(tables, f)
            ps == SelectSeq(tables.dim_product, LAMBDA p : p.product_key = f.product_key)
            cs == SelectSeq(tables.dim_customer, LAMBDA c : c.customer_key = f.customer_key)
        IN  Flatten([a \in 1..Len(ds) |-> Flatten([b \in 1..Len(gs) |->
                Flatten([m \in 1..Len(ps) |-> [n \in 1..Len(cs) |->
                    [year |-> ds[a].year, quarter |-> ds[a].quarter,
                     quarter_num |-> ds[a].quarter_num, month |-> ds[a].month,
                     month_name |-> ds[a].month_name, region |-> gs[b].region,
                     country |-> gs[b].country, category |-> ps[m].category,
                     subcategory |-> ps[m].subcategory,
                     customer_segment |-> cs[n].customer_segment,
                     revenue |-> f.revenue, profit |-> f.profit, quantity |-> f.quantity,
                     cost |-> f.cost, profit_margin |-> f.profit_margin]]])])])])

\* the files of sales the database may be loaded from: the first n rows,
\* n = 0 for an empty file
CsvFiles == { SubSeq(FactRows, 1, n) : n \in 0..Min(MaxRows, Len(FactRows)) }

\* what the queries of the agents read: the joined rows of a loaded database
Databases == { JoinedRows(RunEtl(csv)) : csv \in CsvFiles }

\* the columns a query can name, qualified or not
TextColumns ==
    {"d.quarter", "d.month_name", "g.region", "g.country", "p.category",
     "p.subcategory", "c.customer_segment",
     "quarter", "month_name", "region", "country", "category", "subcategory",
     "customer_segment"}

NumberColumns ==
    {"d.year", "d.month", "d.quarter_num", "f.revenue", "f.profit", "f.quantity",
     "f.cost", "f.profit_margin",
     "year", "month", "quarter_num", "revenue", "profit", "quantity", "cost",
     "profit_margin"}

Columns == TextColumns \cup NumberColumns

\* the name of a column without its table alias
Unqualified(col) ==
    CASE col \in {"d.year", "year"} -> "year"
      [] col \in {"d.quarter", "quarter"} -> "quarter"
      [] col \in {"d.quarter_num", "quarter_num"} -> "quarter_num"
      [] col \in {"d.month", "month"} -> "month"
      [] col \in {"d.month_name", "month_name"} -> "month_name"
      [] col \in {"g.region", "region"} -> "region"
      [] col \in {"g.country", "country"} -> "country"
      [] col \in {"p.category", "category"} -> "category"
      [] col \in {"p.subcategory", "subcategory"} -> "subcategory"
      [] col \in {"c.customer_segment", "customer_segment"} -> "customer_segment"
      [] col \in {"f.revenue", "revenue"} -> "revenue"
      [] col \in {"f.profit", "profit"} -> "profit"
      [] col \in {"f.quantity", "quantity"} -> "quantity"
      [] col \in {"f.cost", "cost"} -> "cost"
      [] OTHER -> "profit_margin"

\* the value of a column of a fact row
ColumnValue(row, col) ==
    IF col \in NumberColumns THEN VInt(row[Unqualified(col)]) ELSE VId(row[Unqualified(col)])

\* a compiled filter: the predicates of the WHERE clause joined by AND, and
\* the bind values; the clause is the empty string when there is no predicate
Where(conditions, params) == [conditions |-> conditions, params |-> params]

NoWhere == Where(<<>>, <<>>)

\* a predicate over column col with n placeholders: col IN (?,..), col = ?,
\* col >= ? or col <= ?
Condition(col, op, n) == [col |-> col, op |-> op, n |-> n]

\* the column a catalog maps a dimension name to, "" when it has none
CatalogColumn(catalog, name) ==
    IF \E k \in 1..Len(catalog) : catalog[k].key = name
    THEN catalog[CHOOSE k \in 1..Len(catalog) : catalog[k].key = name].val
    ELSE ""

\* col_map of dimension_navigator.py and COL_MAP of kpi_calculator.py
COL_MAP ==
    << Entry("year", "d.year"), Entry("quarter", "d.quarter"),
       Entry("month", "d.month_name"), Entry("region", "g.region"),
       Entry("country", "g.country"), Entry("category", "p.category"),
       Entry("subcategory", "p.subcategory"),
       Entry("customer_segment", "c.customer_segment") >>

\* COL_MAP of cube_operations.py
CUBE_COL_MAP == COL_MAP \o << Entry("month_num", "d.month") >>

\* mutant of CompileEntry: the list is bound as one value
CompileEntryAppend(col, val) ==
    IF val.t = "list"
    THEN Where(<<Condition(col, "in", Len(val.l))>>, <<val>>)
    ELSE Where(<<Condition(col, "=", 1)>>, <<val>>)

\* one filter entry compiled with equality and list membership only
CompileEntry(col, val) ==
    IF val.t = "list"
    THEN Where(<<Condition(col, "in", Len(val.l))>>, Items(val))
    ELSE Where(<<Condition(col, "=", 1)>>, <<val>>)

\* one filter entry compiled by the cube agent, which also knows ranges
CubeCompileEntry(col, val) ==
    IF val.t = "list"
    THEN Where(<<Condition(col, "in", Len(val.l))>>, Items(val))
    ELSE IF val.t = "dict" /\ HasKey(val, "gte")
    THEN Where(<<Condition(col, ">=", 1)>>, <<Get(val, "gte", VNone)>>)
    ELSE IF val.t = "dict" /\ HasKey(val, "lte")
    THEN Where(<<Condition(col, "<=", 1)>>, <<Get(val, "lte", VNone)>>)
    ELSE Where(<<Condition(col, "=", 1)>>, <<val>>)

\* mutant of BuildFilterClause: an unknown key is compiled as a column
RECURSIVE BuildFilterClauseAnyKey(_)
BuildFilterClauseAnyKey(filters) ==
    IF filters = <<>> THEN NoWhere
    ELSE LET e == Head(filters)
             rest == BuildFilterClauseAnyKey(Tail(filters))
             this == CompileEntry(IF CatalogColumn(COL_MAP, e.key) # ""
                                  THEN CatalogColumn(COL_MAP, e.key) ELSE e.key, e.val)
         IN  Where(this.conditions \o rest.conditions, this.params \o rest.params)

\* _build_filter_clause of dimension_navigator.py, on the entries of a filter dict
RECURSIVE BuildFilterClause(_)
BuildFilterClause(filters) ==
    IF filters = <<>> THEN NoWhere
    ELSE LET e == Head(filters)
             rest == BuildFilterClause(Tail(filters))
             this == IF CatalogColumn(COL_MAP, e.key) # ""
                     THEN CompileEntry(CatalogColumn(COL_MAP, e.key), e.val)
                     ELSE NoWhere
         IN  Where(this.conditions \o rest.conditions, this.params \o rest.params)

\* _build_where of cube_operations.py
RECURSIVE CubeBuildWhere(_)
CubeBuildWhere(filters) ==
    IF filters = <<>> THEN NoWhere
    ELSE LET e == Head(filters)
             rest == CubeBuildWhere(Tail(filters))
             this == IF CatalogColumn(CUBE_COL_MAP, e.key) # ""
                     THEN CubeCompileEntry(CatalogColumn(CUBE_COL_MAP, e.key), e.val)
                     ELSE NoWhere
         IN  Where(this.conditions \o rest.conditions, this.params \o rest.params)

\* _build_where of kpi_calculator.py
RECURSIVE KpiBuildWhere(_)
KpiBuildWhere(filters) ==
    IF filters = <<>> THEN NoWhere
    ELSE LET e == Head(filters)
             rest == KpiBuildWhere(Tail(filters))
             this == IF CatalogColumn(COL_MAP, e.key) # ""
                     THEN CompileEntry(CatalogColumn(COL_MAP, e.key), e.val)
                     ELSE NoWhere
         IN  Where(this.conditions \o rest.conditions, this.params \o rest.params)

\* filters.items() raises when the value given for the filters is not a dict
FiltersRaise(filters) == filters.t # "dict"

\* sqlite3 cannot bind a list or a dict
BindRaises(where) == \E k \in 1..Len(where.params) : where.params[k].t \in {"list", "dict"}

\* whether a fact row satisfies the predicates of a compiled filter
RECURSIVE Satisfies(_, _, _)
Satisfies(row, conditions, params) ==
    IF conditions = <<>> THEN TRUE
    ELSE LET c == Head(conditions)
             v == ColumnValue(row, c.col)
             binds == SubSeq(params, 1, c.n)
             holds == CASE c.op = "in" -> \E k \in 1..c.n : binds[k] = v
                        [] c.op = "=" -> binds[1] = v
                        [] c.op = ">=" -> binds[1].t = "int" /\ v.t = "int" /\ v.i >= binds[1].i
                        [] OTHER -> binds[1].t = "int" /\ v.t = "int" /\ v.i <= binds[1].i
         IN  holds /\ Satisfies(row, Tail(conditions), SubSeq(params, c.n + 1, Len(params)))

\* the fact rows a WHERE clause keeps
Filtered(db, where) == SelectSeq(db, LAMBDA row : Satisfies(row, where.conditions, where.params))

\* the values of the grouping columns of a row
GroupKey(row, cols) == [k \in 1..Len(cols) |-> ColumnValue(row, cols[k])]

\* the distinct group keys of the rows, in order of first appearance
GroupKeys(rows, cols) ==
    LET firsts == { i \in 1..Len(rows) :
                      \A j \in 1..(i - 1) : GroupKey(rows[j], cols) # GroupKey(rows[i], cols) }
    IN  [k \in 1..Cardinality(firsts) |->
            GroupKey(rows[CHOOSE i \in firsts :
                             Cardinality({ j \in firsts : j < i }) = k - 1], cols)]

\* SUM(f.measure) over rows
RECURSIVE Sum(_, _)
Sum(rows, measure) ==
    IF rows = <<>> THEN 0 ELSE Head(rows)[measure] + Sum(Tail(rows), measure)

\* num / den rounded to the nearest whole number, halves to even; den > 0
RoundDiv(num, den) ==
    LET q == num \div den
        r == num % den
    IN  IF 2 * r < den THEN q
        ELSE IF 2 * r > den THEN q + 1
        ELSE IF q % 2 = 0 THEN q ELSE q + 1

\* ROUND(AVG(f.measure), 2), in hundredths
Avg(rows, measure) == RoundDiv(Sum(rows, measure) * 100, Len(rows))

\* the rows of a sequence ordered by a number, descending or ascending, rows
\* with equal numbers in their given order
SortBy(rows, Number(_), descending) ==
    LET Before(a, b) == IF descending THEN Number(a) > Number(b)
                        ELSE Number(a) < Number(b)
        Position(i) == Cardinality({ j \in 1..Len(rows) :
                                       \/ Before(rows[j], rows[i])
                                       \/ j < i /\ ~Before(rows[i], rows[j]) }) + 1
    IN  [k \in 1..Len(rows) |-> rows[CHOOSE i \in 1..Len(rows) : Position(i) = k]]

\* LIMIT n of SQLite: a negative n means no limit
Limit(rows, n) == IF n < 0 \/ n >= Len(rows) THEN rows ELSE SubSeq(rows, 1, n)

\* the text values of the dimension tables in alphabetical order, the order
\* that ORDER BY and pandas' groupby give them
Names ==
    <<"Asia Pacific", "Brazil", "Canada", "Chairs", "Chile", "China", "Clothing",
      "Consumer", "Desks", "Electronics", "Europe", "France", "Furniture",
      "Germany", "India", "Italy", "January", "Japan", "Laptops", "Latin America",
      "Mexico", "North America", "Phones", "Q1", "Shirts", "Shoes", "Spain", "USA">>

\* the position of a column value in its sort order
Rank(v) == IF v.t = "int" THEN v.i ELSE CHOOSE k \in 1..Len(Names) : Names[k] = v.id

\* what an agent's run did: the outcome the orchestrator sees (kind, op,
\* rows, summary, text), the result table and the queries sent to the database
Ran(op, data, summary, queries) ==
    [kind |-> "ok", op |-> VId(op), rows |-> Len(data), summary |-> summary,
     text |-> <<>>, data |-> data, queries |-> queries]

\* run returned an output with an error and no table
Refused(op, text) ==
    [kind |-> "error", op |-> op, rows |-> 0, summary |-> <<>>, text |-> text,
     data |-> <<>>, queries |-> <<>>]

\* run raised an exception after sending the queries
Threw(text, queries) ==
    [kind |-> "raise", op |-> VNone, rows |-> 0, summary |-> <<>>, text |-> text,
     data |-> <<>>, queries |-> queries]

\* a query: its GROUP BY columns and its compiled WHERE clause
Query(group_cols, where) == [group_cols |-> group_cols, where |-> where]

\* the database rejects a query that names a column that does not exist, has
\* an empty GROUP BY list, or binds a list or a dict
SqlRaises(q) ==
    \/ q.group_cols = <<>>
    \/ \E k \in 1..Len(q.group_cols) : q.group_cols[k] \notin Columns
    \/ \E k \in 1..Len(q.where.conditions) : q.where.conditions[k].col \notin Columns
    \/ BindRaises(q.where)

\* query_df: the result rows, one dict per row; a result of no rows is a
\* DataFrame without columns
GroupedRows(db, cols, where) ==
    LET rows == Filtered(db, where)
        keys == GroupKeys(rows, cols)
    IN  [k \in 1..Len(keys) |->
            LET g == SelectSeq(rows, LAMBDA r : GroupKey(r, cols) = keys[k])
            IN  VDict([j \in 1..Len(cols) |-> Entry(Unqualified(cols[j]), keys[k][j])]
                      \o << Entry("total_revenue", VInt(Sum(g, "revenue"))),
                            Entry("total_profit", VInt(Sum(g, "profit"))),
                            Entry("avg_margin", VInt(Avg(g, "profit_margin"))),
                            Entry("total_qty", VInt(Sum(g, "quantity"))),
                            Entry("transactions", VInt(Len(g))) >>)]

\* the number in a column of a result row
Num(row, col) == Get(row, col, VInt(0)).i

\* _base_query and the SELECT of slice and dice: the groups by revenue, descending
BaseQuery(db, cols, where) ==
    SortBy(GroupedRows(db, cols, where), LAMBDA r : Num(r, "total_revenue"), TRUE)

\* str.lower() of an operation name
LowerId(x) ==
    CASE x = "DRILL_DOWN" -> "drill_down"
      [] x = "Roll-Up" -> "roll-up"
      [] x = "Slice" -> "slice"
      [] x = "TOP-N" -> "top-n"
      [] x = "Monthly" -> "monthly"
      [] OTHER -> x

\* str.replace("-", "_") of an operation name
Underscored(x) ==
    CASE x = "drill-down" -> "drill_down"
      [] x = "roll-up" -> "roll_up"
      [] x = "drill-through" -> "drill_through"
      [] x = "top-n" -> "top_n"
      [] OTHER -> x

-----------------------------------------------------------------------------
(* DimensionNavigatorAgent (backend/agents/dimension_navigator.py) *)

\* HIERARCHIES: the levels and the columns of a hierarchy, coarse to fine
HierarchyLevels(h) ==
    CASE h = "geography" -> <<"region", "country">>
      [] h = "product" -> <<"category", "subcategory">>
      [] OTHER -> <<"year", "quarter", "month">>

HierarchyColumns(h) ==
    CASE h = "geography" -> <<"g.region", "g.country">>
      [] h = "product" -> <<"p.category", "p.subcategory">>
      [] OTHER -> <<"d.year", "d.quarter", "d.month_name">>

\* HIERARCHIES.get(hierarchy, HIERARCHIES["time"])
HierarchyOf(v) == IF v.t = "id" /\ v.id \in {"time", "geography", "product"} THEN v.id ELSE "time"

\* h["levels"].index(to_level), 0 when the level is not in the list
LevelIndex(h, to_level) ==
    IF to_level.t = "id" /\ \E k \in 1..Len(HierarchyLevels(h)) : HierarchyLevels(h)[k] = to_level.id
    THEN CHOOSE k \in 1..Len(HierarchyLevels(h)) : HierarchyLevels(h)[k] = to_level.id
    ELSE 0

\* mutant of DrillDownColumns: an unknown level gives the coarsest level
DrillDownColumnsCoarsest(params) ==
    LET h == HierarchyOf(Get(params, "hierarchy", VId("time")))
        idx == LevelIndex(h, Get(params, "to_level", VId(HierarchyLevels(h)[Len(HierarchyLevels(h))])))
    IN  SubSeq(HierarchyColumns(h), 1, IF idx = 0 THEN 1 ELSE idx)

\* the group_cols of _drill_down
DrillDownColumns(params) ==
    LET h == HierarchyOf(Get(params, "hierarchy", VId("time")))
        idx == LevelIndex(h, Get(params, "to_level", VId(HierarchyLevels(h)[Len(HierarchyLevels(h))])))
    IN  SubSeq(HierarchyColumns(h), 1, IF idx = 0 THEN Len(HierarchyLevels(h)) ELSE idx)

\* mutant of RollUpColumns: the column of the level alone
RollUpColumnsLevelOnly(params) ==
    LET h == HierarchyOf(Get(params, "hierarchy", VId("time")))
        idx == LevelIndex(h, Get(params, "to_level", VId(HierarchyLevels(h)[1])))
    IN  SubSeq(HierarchyColumns(h), IF idx = 0 THEN 1 ELSE idx, IF idx = 0 THEN 1 ELSE idx)

\* the group_cols of _roll_up
RollUpColumns(params) ==
    LET h == HierarchyOf(Get(params, "hierarchy", VId("time")))
        idx == LevelIndex(h, Get(params, "to_level", VId(HierarchyLevels(h)[1])))
    IN  SubSeq(HierarchyColumns(h), 1, IF idx = 0 THEN 1 ELSE idx)

\* f"d.{d}" of a dimension name that col_map does not have
DatePrefixed(d) ==
    CASE d = "quarter_num" -> "d.quarter_num"
      [] d = "month_name" -> "d.month_name"
      [] OTHER -> "d.?"

\* the group_cols of _group_by: col_map.get(d, f"d.{d}") for d in dimensions
GroupByColumns(dimensions) ==
    [k \in 1..Len(dimensions) |->
        IF dimensions[k].t # "id" THEN "d.?"
        ELSE IF CatalogColumn(COL_MAP, dimensions[k].id) # ""
        THEN CatalogColumn(COL_MAP, dimensions[k].id)
        ELSE DatePrefixed(dimensions[k].id)]

\* the part of the three navigator operations after group_cols is known;
\* sums_revenue: the summary reads df['total_revenue'], which an empty
\* DataFrame does not have
NavigatorQuery(db, op, group_cols, params, sums_revenue) ==
    LET filters == Get(params, "filters", VDict(<<>>))
        q == Query(group_cols, BuildFilterClause(filters.l))
        df == BaseQuery(db, group_cols, q.where)
    IN  IF FiltersRaise(filters) THEN Threw(Str(<<"i","t","e","m","s">>), <<>>)
        ELSE IF SqlRaises(q) THEN Threw(Str(<<"n","o"," ","s","u","c","h"," ","c","o","l","u","m","n">>), <<q>>)
        ELSE IF sums_revenue /\ df = <<>> THEN Threw(Str(<<"'","t","o","t","a","l","_","r","e","v","e","n","u","e","'">>), <<q>>)
        ELSE Ran(op, df, Str(<<"r","o","w","s">>), <<q>>)

\* DimensionNavigatorAgent.run
NavigatorRun(db, operation, params) ==
    LET op == LowerId(operation.id)
    IN  IF operation.t # "id" THEN Threw(Str(<<"l","o","w","e","r">>), <<>>)
        ELSE IF op \in {"drill_down", "drill-down", "roll_up", "roll-up", "group"} /\ params.t # "dict"
        THEN Threw(Str(<<"g","e","t">>), <<>>)
        ELSE IF op \in {"drill_down", "drill-down"}
        THEN NavigatorQuery(db, "drill_down", DrillDownColumns(params), params, FALSE)
        ELSE IF op \in {"roll_up", "roll-up"}
        THEN NavigatorQuery(db, "roll_up", RollUpColumns(params), params, TRUE)
        ELSE IF op = "group"
        THEN LET dimensions == Get(params, "dimensions", VList(<<VId("region")>>))
             IN  IF dimensions.t # "list" THEN Threw(Str(<<"n","o"," ","s","u","c","h"," ","c","o","l","u","m","n">>), <<>>)
                 ELSE NavigatorQuery(db, "group", GroupByColumns(Items(dimensions)), params, TRUE)
        ELSE Refused(VId(op), Str(<<"U","n","k","n","o","w","n"," ","o","p","e","r","a","t","i","o","n">>))

-----------------------------------------------------------------------------
(* CubeOperationsAgent (backend/agents/cube_operations.py) *)

\* [COL_MAP.get(d, d) for d in group_dims]
CubeColumns(group_dims) ==
    [k \in 1..Len(group_dims) |->
        IF group_dims[k].t # "id" THEN "?"
        ELSE IF CatalogColumn(CUBE_COL_MAP, group_dims[k].id) # ""
        THEN CatalogColumn(CUBE_COL_MAP, group_dims[k].id)
        ELSE group_dims[k].id]

\* _slice and _dice after their parameters are read
CubeQuery(db, op, filters, group_dims, sums_revenue) ==
    LET q == Query(CubeColumns(Items(group_dims)), CubeBuildWhere(filters.l))
        df == BaseQuery(db, q.group_cols, q.where)
    IN  IF group_dims.t # "list" THEN Threw(Str(<<"n","o"," ","s","u","c","h"," ","c","o","l","u","m","n">>), <<>>)
        ELSE IF FiltersRaise(filters) THEN Threw(Str(<<"i","t","e","m","s">>), <<>>)
        ELSE IF SqlRaises(q) THEN Threw(Str(<<"n","o"," ","s","u","c","h"," ","c","o","l","u","m","n">>), <<q>>)
        ELSE IF sums_revenue /\ df = <<>> THEN Threw(Str(<<"'","t","o","t","a","l","_","r","e","v","e","n","u","e","'">>), <<q>>)
        ELSE Ran(op, df, Str(<<"r","e","s","u","l","t","s">>), <<q>>)

\* _pivot: one row per row label, holding the metric of each column label
CubePivot(db, params) ==
    LET row_dim == Get(params, "row_dim", VId("region"))
        col_dim == Get(params, "col_dim", VId("year"))
        measure == Get(params, "measure", VId("revenue"))
        filters == Get(params, "filters", VDict(<<>>))
        cols == CubeColumns(<<row_dim, col_dim>>)
        q == Query(cols, CubeBuildWhere(filters.l))
        rows == Filtered(db, q.where)
        Cell(g) == IF measure.id \in {"revenue", "profit", "quantity", "cost"}
                   THEN Sum(g, measure.id) * 100 ELSE Avg(g, measure.id)
        labels == SortBy(GroupKeys(rows, <<cols[1]>>), LAMBDA key : Rank(key[1]), FALSE)
        headers == SortBy(GroupKeys(rows, <<cols[2]>>), LAMBDA key : Rank(key[1]), FALSE)
        df == [k \in 1..Len(labels) |->
                  VDict(<< Entry("row_label", labels[k][1]),
                           Entry("cells",
                                 VList([j \in 1..Len(headers) |->
                                    LET g == SelectSeq(rows, LAMBDA r :
                                                GroupKey(r, cols) = <<labels[k][1], headers[j][1]>>)
                                    IN  IF g = <<>> THEN VNone ELSE VInt(Cell(g))])) >>)]
    IN  IF FiltersRaise(filters) THEN Threw(Str(<<"i","t","e","m","s">>), <<>>)
        ELSE IF SqlRaises(q) \/ measure.t # "id" \/ Unqualified(measure.id) # measure.id
        THEN Threw(Str(<<"n","o"," ","s","u","c","h"," ","c","o","l","u","m","n">>), <<q>>)
        ELSE Ran("pivot", df, Str(<<"P","i","v","o","t">>), <<q>>)

\* _drill_through: the transactions themselves, at most `limit` of them
CubeDrillThrough(db, params) ==
    LET filters == Get(params, "filters", VDict(<<>>))
        limit == Get(params, "limit", VInt(50))
        q == Query(<<>>, CubeBuildWhere(filters.l))
        rows == Filtered(db, q.where)
        df == [k \in 1..Len(rows) |->
                  VDict(<< Entry("region", VId(rows[k].region)),
                           Entry("country", VId(rows[k].country)),
                           Entry("category", VId(rows[k].category)),
                           Entry("subcategory", VId(rows[k].subcategory)),
                           Entry("revenue", VInt(rows[k].revenue)),
                           Entry("profit", VInt(rows[k].profit)) >>)]
    IN  IF FiltersRaise(filters) THEN Threw(Str(<<"i","t","e","m","s">>), <<>>)
        ELSE IF BindRaises(q.where) \/ limit.t # "int" THEN Threw(Str(<<"b","i","n","d","i","n","g">>), <<q>>)
        ELSE Ran("drill_through", Limit(df, limit.i), Str(<<"D","r","i","l","l","-","t","h","r","o","u","g","h">>), <<q>>)

\* CubeOperationsAgent.run
CubeRun(db, operation, params) ==
    LET op == Underscored(LowerId(operation.id))
    IN  IF operation.t # "id" THEN Threw(Str(<<"l","o","w","e","r">>), <<>>)
        ELSE IF op \in {"slice", "dice", "pivot", "drill_through"} /\ params.t # "dict"
        THEN Threw(Str(<<"g","e","t">>), <<>>)
        ELSE IF op = "slice"
        THEN CubeQuery(db, "slice", Get(params, "filter", VDict(<<>>)),
                       Get(params, "group_by", VList(<<VId("region")>>)), TRUE)
        ELSE IF op = "dice"
        THEN CubeQuery(db, "dice", Get(params, "filters", VDict(<<>>)),
                       Get(params, "group_by", VList(<<VId("country")>>)), FALSE)
        ELSE IF op = "pivot" THEN CubePivot(db, params)
        ELSE IF op = "drill_through" THEN CubeDrillThrough(db, params)
        ELSE Refused(VId(op), Str(<<"U","n","k","n","o","w","n"," ","o","p">>))

-----------------------------------------------------------------------------
(* KPICalculatorAgent (backend/agents/kpi_calculator.py) *)

\* Python truthiness of a value
PyTruthy(v) ==
    CASE v.t = "none" -> FALSE
      [] v.t \in {"bool", "int"} -> v.i # 0
      [] v.t = "id" -> TRUE
      [] v.t = "str" -> Truthy(v.s)
      [] OTHER -> Len(v.l) > 0

\* mutant of GrowthPct: a previous value of zero gives a growth of 0
GrowthPctZero(prev, current) ==
    IF prev = VNone THEN VNone
    ELSE IF prev.i = 0 THEN VInt(0)
    ELSE VInt(RoundDiv((current.i - prev.i) * 10000, prev.i))

\* round((current - prev) / prev * 100, 2) if prev else None, in hundredths
GrowthPct(prev, current) ==
    IF ~PyTruthy(prev) THEN VNone
    ELSE VInt(RoundDiv((current.i - prev.i) * 10000, prev.i))

\* the records of one series ordered by year: each point with its growth
\* over the point before it
GrowthRecords(series, label) ==
    [i \in 1..Len(series) |->
        LET prev == IF i > 1 THEN Get(series[i - 1], "total_revenue", VNone) ELSE VNone
        IN  VDict((IF label = <<>> THEN <<>> ELSE <<Entry("dimension", label[1])>>)
                  \o << Entry("year", Get(series[i], "year", VNone)),
                        Entry("total_revenue", Get(series[i], "total_revenue", VNone)),
                        Entry("yoy_growth_pct",
                              GrowthPct(prev, Get(series[i], "total_revenue", VNone))) >>)]

\* _yoy_growth
KpiYoyGrowth(db, params) ==
    LET dimension == Get(params, "dimension", VNone)
        filters == Get(params, "filters", VDict(<<>>))
        dim_col == IF ~PyTruthy(dimension) THEN ""
                   ELSE IF dimension.t = "id" /\ CatalogColumn(COL_MAP, dimension.id) # ""
                   THEN CatalogColumn(COL_MAP, dimension.id)
                   ELSE "g.region"
        cols == IF dim_col = "" THEN <<"d.year">> ELSE <<dim_col, "d.year">>
        q == Query(cols, KpiBuildWhere(filters.l))
        raw == GroupedRows(db, cols, q.where)
        labels == IF dim_col = "" THEN << <<>> >>
                  ELSE SortBy(GroupKeys(Filtered(db, q.where), <<dim_col>>),
                              LAMBDA key : Rank(key[1]), FALSE)
        Series(label) ==
            SortBy(SelectSeq(raw, LAMBDA r : label = <<>> \/ r.l[1].val = label[1]),
                   LAMBDA r : Num(r, "year"), FALSE)
        df == Flatten([k \in 1..Len(labels) |-> GrowthRecords(Series(labels[k]), labels[k])])
    IN  IF PyTruthy(dimension) /\ dimension.t \in {"list", "dict"}
        THEN Threw(Str(<<"u","n","h","a","s","h","a","b","l","e"," ","t","y","p","e">>), <<>>)
        ELSE IF FiltersRaise(filters) THEN Threw(Str(<<"i","t","e","m","s">>), <<>>)
        ELSE IF SqlRaises(q) THEN Threw(Str(<<"b","i","n","d","i","n","g">>), <<q>>)
        ELSE IF raw = <<>> THEN Ran("yoy_growth", <<>>, Str(<<"N","o"," ","d","a","t","a"," ","r","e","t","u","r","n","e","d",".">>), <<q>>)
        ELSE Ran("yoy_growth", df,
                 IF \E k \in 1..Len(df) : Get(df[k], "yoy_growth_pct", VNone) # VNone
                 THEN Str(<<"Y","e","a","r","-","o","v","e","r","-","y","e","a","r"," ","g","r","o","w","t","h">>) ELSE Str(<<".">>), <<q>>)

\* _mom_change: the months in order, each with its change over the month
\* before it; a change over a month of no revenue is not a number
KpiMomChange(db, params) ==
    LET year == Get(params, "year", VNone)
        filters == IF PyTruthy(year) THEN <<Entry("year", year)>> ELSE <<>>
        cols == <<"d.year", "d.month", "d.month_name">>
        q == Query(cols, KpiBuildWhere(filters))
        raw == SortBy(SortBy(GroupedRows(db, cols, q.where), LAMBDA r : Num(r, "month"), FALSE),
                      LAMBDA r : Num(r, "year"), FALSE)
        df == [i \in 1..Len(raw) |->
                  LET prev == IF i > 1 THEN Get(raw[i - 1], "total_revenue", VNone) ELSE VNone
                      current == Get(raw[i], "total_revenue", VNone)
                  IN  VDict(<< Entry("year", Get(raw[i], "year", VNone)),
                               Entry("month", Get(raw[i], "month", VNone)),
                               Entry("total_revenue", current),
                               Entry("mom_change_pct",
                                     IF prev = VNone THEN VNone
                                     ELSE IF prev.i = 0
                                     THEN (IF current.i = 0 THEN VNone ELSE VId("inf"))
                                     ELSE VInt(RoundDiv((current.i - prev.i) * 10000, prev.i))) >>)]
    IN  IF SqlRaises(q) THEN Threw(Str(<<"b","i","n","d","i","n","g">>), <<q>>)
        ELSE IF raw = <<>> THEN Ran("mom_change", <<>>, Str(<<"N","o"," ","d","a","t","a",".">>), <<q>>)
        ELSE Ran("mom_change", df, Str(<<"M","o","n","t","h","-","o","v","e","r","-","m","o","n","t","h"," ","c","h","a","n","g","e">>), <<q>>)

\* get_period_data of _compare_periods: the revenue of a period per value
\* of the grouping column
PeriodData(db, dim_col, where) ==
    LET rows == SortBy(GroupedRows(db, <<dim_col>>, where), LAMBDA r : Rank(r.l[1].val), FALSE)
    IN  [k \in 1..Len(rows) |->
            VDict(<< Entry("dimension", rows[k].l[1].val),
                     Entry("revenue", Get(rows[k], "total_revenue", VNone)) >>)]

\* the percentage change of the merged rows: the base with 0 replaced by
\* NaN, so that a zero base gives a missing value
ChangePct(revenue_a, revenue_b) ==
    IF revenue_a = 0 THEN VNone
    ELSE VInt(RoundDiv((revenue_b - revenue_a) * 10000, revenue_a))

\* the percentage change of the single row: (change / rev_a * 100) if rev_a else 0
ScalarChangePct(rev_a, rev_b) ==
    IF rev_a = 0 THEN VInt(0)
    ELSE VInt(RoundDiv((rev_b - rev_a) * 10000, rev_a))

\* _compare_periods.  The query of a period is grouped by "<dim_col>,1";
\* without a grouping column it is grouped by "1", the first result column,
\* an aggregate, which the database rejects.
KpiComparePeriods(db, params) ==
    LET period_a == Get(params, "period_a", VDict(<<Entry("year", VInt(2023))>>))
        period_b == Get(params, "period_b", VDict(<<Entry("year", VInt(2024))>>))
        group_by == Get(params, "group_by", VNone)
        dim_col == IF PyTruthy(group_by) /\ group_by.t = "id"
                   THEN CatalogColumn(COL_MAP, group_by.id) ELSE ""
        query_a == Query(IF dim_col = "" THEN <<>> ELSE <<dim_col>>, KpiBuildWhere(period_a.l))
        query_b == Query(IF dim_col = "" THEN <<>> ELSE <<dim_col>>, KpiBuildWhere(period_b.l))
        df_a == PeriodData(db, dim_col, query_a.where)
        df_b == PeriodData(db, dim_col, query_b.where)
        InB(a) == SelectSeq(df_b, LAMBDA b : Get(b, "dimension", VNone) = Get(a, "dimension", VNone))
        joined == SelectSeq(df_a, LAMBDA a : InB(a) # <<>>)
        merged == [k \in 1..Len(joined) |->
                      LET revenue_a == Num(joined[k], "revenue")
                          revenue_b == Num(InB(joined[k])[1], "revenue")
                      IN  VDict(<< Entry("dimension", Get(joined[k], "dimension", VNone)),
                                   Entry("revenue_a", VInt(revenue_a)),
                                   Entry("revenue_b", VInt(revenue_b)),
                                   Entry("revenue_change", VInt(revenue_b - revenue_a)),
                                   Entry("revenue_change_pct", ChangePct(revenue_a, revenue_b)) >>)]
        rev_a == IF df_a = <<>> THEN 0 ELSE Num(df_a[1], "revenue")
        rev_b == IF df_b = <<>> THEN 0 ELSE Num(df_b[1], "revenue")
        single == << VDict(<< Entry("revenue_a", VInt(rev_a)),
                              Entry("revenue_b", VInt(rev_b)),
                              Entry("change", VInt(rev_b - rev_a)),
                              Entry("change_pct", ScalarChangePct(rev_a, rev_b)) >>) >>
    IN  IF PyTruthy(group_by) /\ group_by.t \in {"list", "dict"}
        THEN Threw(Str(<<"u","n","h","a","s","h","a","b","l","e"," ","t","y","p","e">>), <<>>)
        ELSE IF FiltersRaise(period_a) \/ FiltersRaise(period_b) THEN Threw(Str(<<"i","t","e","m","s">>), <<>>)
        ELSE IF SqlRaises(query_a)
        THEN Threw(Str(<<"a","g","g","r","e","g","a","t","e"," ","f","u","n","c","t","i","o","n","s"," ","a","r","e"," ","n","o","t"," ","a","l","l","o","w","e","d"," ","i","n"," ","t","h","e"," ","G","R","O","U","P"," ","B","Y"," ","c","l","a","u","s","e">>), <<query_a>>)
        ELSE IF SqlRaises(query_b) THEN Threw(Str(<<"b","i","n","d","i","n","g">>), <<query_a, query_b>>)
        ELSE IF df_a # <<>> /\ df_b = <<>> THEN Threw(Str(<<"'","d","i","m","e","n","s","i","o","n","'">>), <<query_a, query_b>>)
        ELSE IF df_a # <<>>
        THEN Ran("compare_periods", merged, Str(<<"C","o","m","p","a","r","i","s","o","n">>), <<query_a, query_b>>)
        ELSE Ran("compare_periods", single, Str(<<"C","o","m","p","a","r","i","s","o","n">>), <<query_a, query_b>>)

\* the measures of fact_sales
Measures == {"revenue", "profit", "quantity", "cost", "profit_margin"}

\* ROUND(agg(f.measure), 2) in hundredths: SUM for the four additive
\* measures, AVG otherwise
Metric(rows, measure) ==
    IF measure \in {"revenue", "profit", "quantity", "cost"}
    THEN Sum(rows, measure) * 100 ELSE Avg(rows, measure)

\* LIMIT n, then df.insert(0, "rank", range(1, len(df) + 1))
Ranked(rows, n) ==
    LET kept == Limit(rows, n)
    IN  [k \in 1..Len(kept) |-> VDict(<<Entry("rank", VInt(k))>> \o kept[k].l)]

\* _top_n
KpiTopN(db, params) ==
    LET n == Get(params, "n", VInt(5))
        dimension == Get(params, "dimension", VId("country"))
        measure == Get(params, "measure", VId("revenue"))
        filters == Get(params, "filters", VDict(<<>>))
        dim_col == IF dimension.t = "id" /\ CatalogColumn(COL_MAP, dimension.id) # ""
                   THEN CatalogColumn(COL_MAP, dimension.id) ELSE "g.country"
        q == Query(<<dim_col>>, KpiBuildWhere(filters.l))
        rows == Filtered(db, q.where)
        keys == GroupKeys(rows, <<dim_col>>)
        groups == [k \in 1..Len(keys) |->
                      LET g == SelectSeq(rows, LAMBDA r : GroupKey(r, <<dim_col>>) = keys[k])
                      IN  VDict(<< Entry("dimension", keys[k][1]),
                                   Entry("metric", VInt(Metric(g, measure.id))),
                                   Entry("total_revenue", VInt(Sum(g, "revenue"))),
                                   Entry("total_profit", VInt(Sum(g, "profit"))),
                                   Entry("transactions", VInt(Len(g))) >>)]
        sorted == SortBy(groups, LAMBDA r : Num(r, "metric"), TRUE)
    IN  IF dimension.t \in {"list", "dict"} THEN Threw(Str(<<"u","n","h","a","s","h","a","b","l","e"," ","t","y","p","e">>), <<>>)
        ELSE IF FiltersRaise(filters) THEN Threw(Str(<<"i","t","e","m","s">>), <<>>)
        ELSE IF SqlRaises(q) \/ measure.t # "id" \/ measure.id \notin Measures \/ n.t # "int"
        THEN Threw(Str(<<"n","o"," ","s","u","c","h"," ","c","o","l","u","m","n">>), <<q>>)
        ELSE Ran("top_n", Ranked(sorted, n.i),
                 IF sorted = <<>> \/ n.i = 0 THEN Str(<<"N","o"," ","d","a","t","a",".">>) ELSE Str(<<"T","o","p">>), <<q>>)

\* _profit_margins
KpiProfitMargins(db, params) ==
    LET dimension == Get(params, "dimension", VId("category"))
        filters == Get(params, "filters", VDict(<<>>))
        dim_col == IF dimension.t = "id" /\ CatalogColumn(COL_MAP, dimension.id) # ""
                   THEN CatalogColumn(COL_MAP, dimension.id) ELSE "p.category"
        q == Query(<<dim_col>>, KpiBuildWhere(filters.l))
        rows == Filtered(db, q.where)
        keys == GroupKeys(rows, <<dim_col>>)
        groups == [k \in 1..Len(keys) |->
                      LET g == SelectSeq(rows, LAMBDA r : GroupKey(r, <<dim_col>>) = keys[k])
                      IN  VDict(<< Entry("dimension", keys[k][1]),
                                   Entry("total_revenue", VInt(Sum(g, "revenue"))),
                                   Entry("total_profit", VInt(Sum(g, "profit"))),
                                   Entry("avg_margin_pct", VInt(Avg(g, "profit_margin"))),
                                   Entry("blended_margin_pct",
                                         IF Sum(g, "revenue") = 0 THEN VNone
                                         ELSE VInt(RoundDiv(Sum(g, "profit") * 10000,
                                                            Sum(g, "revenue")))) >>)]
        df == SortBy(groups, LAMBDA r : Num(r, "avg_margin_pct"), TRUE)
    IN  IF dimension.t \in {"list", "dict"} THEN Threw(Str(<<"u","n","h","a","s","h","a","b","l","e"," ","t","y","p","e">>), <<>>)
        ELSE IF FiltersRaise(filters) THEN Threw(Str(<<"i","t","e","m","s">>), <<>>)
        ELSE IF SqlRaises(q) THEN Threw(Str(<<"b","i","n","d","i","n","g">>), <<q>>)
        ELSE Ran("profit_margins", df, IF df = <<>> THEN <<>> ELSE Str(<<"P","r","o","f","i","t"," ","m","a","r","g","i","n","s">>), <<q>>)

\* _overall_summary: one row of totals; over an empty fact table the sums
\* are NULL and formatting them raises
KpiOverallSummary(db, params) ==
    LET q == Query(<<>>, NoWhere)
        df == << VDict(<< Entry("total_transactions", VInt(Len(db))),
                          Entry("total_revenue", VInt(Sum(db, "revenue"))),
                          Entry("total_profit", VInt(Sum(db, "profit"))) >>) >>
    IN  IF db = <<>> THEN Threw(Str(<<"u","n","s","u","p","p","o","r","t","e","d"," ","f","o","r","m","a","t"," ","s","t","r","i","n","g">>), <<q>>)
        ELSE Ran("summary", df, Str(<<"O","v","e","r","a","l","l">>), <<q>>)

\* dispatch.get(op, self._overall_summary)(p, context)
KpiDispatch(db, op, params) ==
    CASE op \in {"yoy", "yoy_growth"} -> KpiYoyGrowth(db, params)
      [] op \in {"mom", "mom_change"} -> KpiMomChange(db, params)
      [] op \in {"compare", "compare_periods"} -> KpiComparePeriods(db, params)
      [] op \in {"top_n", "ranking"} -> KpiTopN(db, params)
      [] op \in {"margins", "profit_margins"} -> KpiProfitMargins(db, params)
      [] OTHER -> KpiOverallSummary(db, params)

\* KPICalculatorAgent.run
KpiRun(db, operation, params) ==
    LET op == Underscored(LowerId(operation.id))
    IN  IF operation.t # "id" THEN Threw(Str(<<"l","o","w","e","r">>), <<>>)
        ELSE IF params.t # "dict" /\ op \in {"yoy", "yoy_growth", "mom", "mom_change", "compare",
                                            "compare_periods", "top_n", "ranking", "margins",
                                            "profit_margins"}
        THEN Threw(Str(<<"g","e","t">>), <<>>)
        ELSE KpiDispatch(db, op, params)

-----------------------------------------------------------------------------
(* AnomalyDetectionAgent (backend/agents/anomaly_detection.py). Its numbers *)
(* are floats; here the comparisons of the rounded z-score with 2 and of a  *)
(* margin with the fences are made exactly, on whole numbers                *)

\* a / b < c / d for naturals a, c and positive b, d, by whole parts and
\* remainders, so that no product is formed
RECURSIVE RatioLess(_, _, _, _)
RatioLess(a, b, c, d) ==
    IF a \div b # c \div d THEN a \div b < c \div d
    ELSE IF c % d = 0 THEN FALSE
    ELSE IF a % b = 0 THEN TRUE
    ELSE RatioLess(d, c % d, b, a % b)

\* the sum of the numbers of a sequence
RECURSIVE Total(_)
Total(s) == IF s = <<>> THEN 0 ELSE Head(s) + Total(Tail(s))

\* n * n times the variance of the population of a series of n numbers:
\* n * sum(v^2) - sum(v)^2, which is 0 exactly for a constant series
Spread(series) ==
    Len(series) * Total([k \in 1..Len(series) |-> series[k] * series[k]]) - Total(series) * Total(series)

\* Series.std() of pandas, the standard deviation of a sample (ddof = 1):
\* z * z = dev^2 * (n - 1) / (n * Spread)
SampleZ2(series, value) ==
    LET dev == Len(series) * value - Total(series)
    IN  [num |-> dev * dev * (Len(series) - 1), den |-> Len(series) * Spread(series)]

\* ((value - mean) / std).round(3) compared with 2.0: 1 when it is above 2,
\* -1 when it is below -2, otherwise 0. The rounded score is above 2 when
\* the score is above 2.0005, that is its square above 16008001 / 4000000.
\* A series of one point has no std and a constant series has std 0: the
\* score is NaN, which no comparison holds of
ZScoreSide(series, value) ==
    LET z2 == SampleZ2(series, value)
        dev == Len(series) * value - Total(series)
    IN  IF z2.den = 0 THEN 0
        ELSE IF ~RatioLess(16008001, 4000000, z2.num, z2.den) THEN 0
        ELSE IF dev > 0 THEN 1 ELSE -1

\* _monthly_anomaly: the revenue of each month in order of time, with the
\* flag and the label of its z-score; the score itself is not kept
MonthlyAnomaly(db) ==
    LET cols == <<"d.year", "d.month", "d.month_name">>
        q == Query(cols, NoWhere)
        raw == SortBy(SortBy(GroupedRows(db, cols, NoWhere), LAMBDA r : Num(r, "month"), FALSE),
                      LAMBDA r : Num(r, "year"), FALSE)
        series == [k \in 1..Len(raw) |-> Num(raw[k], "total_revenue")]
        df == [k \in 1..Len(raw) |->
                  LET side == ZScoreSide(series, series[k])
                  IN  VDict(<< Entry("year", Get(raw[k], "year", VNone)),
                               Entry("month", Get(raw[k], "month", VNone)),
                               Entry("monthly_revenue", Get(raw[k], "total_revenue", VNone)),
                               Entry("anomaly", VBool(side # 0)),
                               Entry("anomaly_type",
                                     VId(IF side > 0 THEN "High"
                                         ELSE IF side < 0 THEN "Low" ELSE "Normal")) >>)]
    IN  IF raw = <<>> THEN Threw(Str(<<"'","m","o","n","t","h","l","y","_","r","e","v","e","n","u","e","'">>), <<q>>)
        ELSE Ran("monthly_anomaly", df, Str(<<"D","e","t","e","c","t","e","d">>), <<q>>)

\* the numbers of a sequence in ascending order
Ascending(s) ==
    [k \in 1..Len(s) |->
        s[CHOOSE i \in 1..Len(s) :
             Cardinality({ j \in 1..Len(s) : s[j] < s[i] \/ (s[j] = s[i] /\ j < i) }) = k - 1]]

\* the quantile as the lower of the two order statistics, without interpolation
Quantile4Lower(s, quarters) == 4 * Ascending(s)[(quarters * (Len(s) - 1)) \div 4 + 1]

\* 4 * Series.quantile(quarters / 4), quarters = 1 or 3: the value at
\* position quarters * (n - 1) / 4 of the ordered series (positions from 0),
\* between two order statistics in proportion to the fraction of the position
Quantile4(s, quarters) ==
    LET sorted == Ascending(s)
        pos4 == quarters * (Len(s) - 1)
        k == pos4 \div 4
        r == pos4 % 4
    IN  IF r = 0 THEN 4 * sorted[k + 1]
        ELSE (4 - r) * sorted[k + 1] + r * sorted[k + 2]

\* 8 * lower and 8 * upper: q1 - 1.5 * iqr and q3 + 1.5 * iqr
Fences8(margins) ==
    LET q1 == Quantile4(margins, 1)
        q3 == Quantile4(margins, 3)
        iqr == q3 - q1
    IN  [lower |-> 2 * q1 - 3 * iqr, upper |-> 2 * q3 + 3 * iqr]

\* _product_anomaly: the average margin of each subcategory with its flag
\* and its label
ProductAnomaly(db) ==
    LET cols == <<"p.category", "p.subcategory">>
        q == Query(cols, NoWhere)
        raw == GroupedRows(db, cols, NoWhere)
        margins == [k \in 1..Len(raw) |-> Num(raw[k], "avg_margin")]
        fences == Fences8(margins)
        df == [k \in 1..Len(raw) |->
                  LET high == 8 * margins[k] > fences.upper
                      low == 8 * margins[k] < fences.lower
                  IN  VDict(<< Entry("category", Get(raw[k], "category", VNone)),
                               Entry("subcategory", Get(raw[k], "subcategory", VNone)),
                               Entry("avg_margin", Get(raw[k], "avg_margin", VNone)),
                               Entry("anomaly", VBool(low \/ high)),
                               Entry("anomaly_type",
                                     VId(IF high THEN "High margin"
                                         ELSE IF low THEN "Low margin" ELSE "Normal")) >>)]
    IN  IF raw = <<>> THEN Threw(Str(<<"'","a","v","g","_","m","a","r","g","i","n","'">>), <<q>>)
        ELSE Ran("product_anomaly", df, Str(<<"P","r","o","d","u","c","t"," ","m","a","r","g","i","n"," ","a","n","o","m","a","l","y"," ","d","e","t","e","c","t","i","o","n">>), <<q>>)

\* AnomalyDetectionAgent.run
AnomalyRun(db, operation, params) ==
    LET op == LowerId(operation.id)
    IN  IF operation.t # "id" THEN Threw(Str(<<"l","o","w","e","r">>), <<>>)
        ELSE IF op \in {"time_anomaly", "monthly"} THEN MonthlyAnomaly(db)
        ELSE IF op \in {"product_anomaly", "product"} THEN ProductAnomaly(db)
        ELSE MonthlyAnomaly(db)

-----------------------------------------------------------------------------
(* The plan executor running the agents over a database *)

\* agent.run(AgentInput(operation, parameters, context)) of a resolving step
AgentRun(db, step) ==
    LET operation == Operation(step)
        parameters == Get(step, "parameters", VDict(<<>>))
        agent == AgentName(step).id
    IN  CASE agent = "DimensionNavigator" -> NavigatorRun(db, operation, parameters)
          [] agent = "CubeOperations" -> CubeRun(db, operation, parameters)
          [] agent = "KPICalculator" -> KpiRun(db, operation, parameters)
          [] OTHER -> AnomalyRun(db, operation, parameters)

\* what run did, with the fact table it ran on
OnDatabase(o, db) ==
    [kind |-> o.kind, op |-> o.op, rows |-> o.rows, summary |-> o.summary, text |-> o.text,
     data |-> o.data, queries |-> o.queries, db |-> db]

(* Inputs: plans of one step for the four agents *)

Year(y) == Entry("year", VInt(y))

Filters(entries) == Entry("filters", VDict(entries))

\* a range object: {"gte": n} or {"lte": n}
Range(side, n) == VDict(<<Entry(side, VInt(n))>>)

\* a filter entry whose key no catalog has
Planet == Entry("planet", VId("Mars"))

\* each hierarchy with each of its levels
LevelsOfHierarchies ==
    UNION { { <<h, HierarchyLevels(h)[k]>> : k \in 1..Len(HierarchyLevels(h)) } :
              h \in {"time", "geography", "product"} }

NavigatorSteps ==
    { Step("DimensionNavigator", "drill_down", <<>>),
      Step("DimensionNavigator", "drill_down",
           <<Entry("hierarchy", VId("time")), Entry("to_level", VId("quarter"))>>),
      Step("DimensionNavigator", "drill_down",
           <<Entry("hierarchy", VId("time")), Entry("to_level", VId("month"))>>),
      Step("DimensionNavigator", "drill_down",
           <<Entry("hierarchy", VId("time")), Entry("to_level", VId("decade"))>>),
      Step("DimensionNavigator", "DRILL_DOWN",
           <<Entry("hierarchy", VId("geography")), Entry("to_level", VId("city"))>>),
      Step("DimensionNavigator", "drill_down",
           <<Entry("hierarchy", VId("product")), Entry("to_level", VId("category")),
             Filters(<<Year(2024), Planet>>)>>),
      Step("DimensionNavigator", "drill_down",
           <<Entry("hierarchy", VId("geography")), Filters(<<Planet, Entry("moon", VInt(1))>>)>>),
      Step("DimensionNavigator", "drill_down",
           <<Entry("hierarchy", VId("geography")),
             Filters(<<Planet, Entry("region", VList(<<VId("Europe"), VId("Asia Pacific")>>)),
                       Year(2024)>>)>>),
      Step("DimensionNavigator", "drill_down", <<Filters(<<Year(1999)>>)>>),
      Step("DimensionNavigator", "roll_up", <<>>),
      Step("DimensionNavigator", "roll-up",
           <<Entry("hierarchy", VId("time")), Entry("to_level", VId("decade"))>>),
      Step("DimensionNavigator", "roll_up",
           <<Entry("hierarchy", VId("geography")), Entry("to_level", VId("country"))>>),
      Step("DimensionNavigator", "roll_up",
           <<Entry("hierarchy", VId("product")), Entry("to_level", VId("sku")),
             Filters(<<Year(1999)>>)>>),
      Step("DimensionNavigator", "group", <<Entry("dimensions", VList(<<VId("region")>>))>>),
      Step("DimensionNavigator", "group",
           <<Entry("dimensions", VList(<<VId("category")>>)), Filters(<<Year(1999)>>)>>),
      Step("DimensionNavigator", "group", <<Entry("dimensions", VList(<<VId("planet")>>))>>),
      Step("DimensionNavigator", "group", <<Entry("dimensions", VList(<<VId("quarter_num")>>))>>),
      Step("DimensionNavigator", "group",
           <<Entry("dimensions", VList(<<VId("region")>>)),
             Filters(<<Entry("year", Range("gte", 2023))>>)>>),
      Step("DimensionNavigator", "explode", <<>>) }
        \cup { Step("DimensionNavigator", op,
                     <<Entry("hierarchy", VId(hl[1])), Entry("to_level", VId(hl[2]))>>) :
                 op \in {"drill_down", "roll_up"}, hl \in LevelsOfHierarchies }

CubeSteps ==
    { Step("CubeOperations", "slice",
           <<Entry("filter", VDict(<<Year(2024)>>)), Entry("group_by", VList(<<VId("region")>>))>>),
      Step("CubeOperations", "Slice",
           <<Entry("filter", VDict(<<Planet>>)), Entry("group_by", VList(<<VId("category")>>))>>),
      Step("CubeOperations", "slice",
           <<Entry("filter", VDict(<<Year(1999)>>)), Entry("group_by", VList(<<VId("region")>>))>>),
      Step("CubeOperations", "slice",
           <<Entry("filter", VDict(<<Entry("year", VDict(<<Entry("gte", VInt(2023))>>)), Planet>>)),
             Entry("group_by", VList(<<VId("region")>>))>>),
      Step("CubeOperations", "slice", <<Entry("group_by", VList(<<VId("revenue")>>))>>),
      Step("CubeOperations", "slice", <<Entry("group_by", VList(<<VId("planet")>>))>>),
      Step("CubeOperations", "dice",
           <<Filters(<<Year(2024), Entry("region", VId("Europe"))>>),
             Entry("group_by", VList(<<VId("country")>>))>>),
      Step("CubeOperations", "dice", <<Filters(<<Year(1999)>>)>>),
      Step("CubeOperations", "dice",
           <<Filters(<<Entry("region", VList(<<VId("Europe"), VId("Asia Pacific")>>)),
                       Entry("year", Range("lte", 2023))>>),
             Entry("group_by", VList(<<VId("country")>>))>>),
      Step("CubeOperations", "dice", <<Entry("group_by", VList(<<VId("profit")>>))>>),
      Step("CubeOperations", "pivot", <<>>),
      Step("CubeOperations", "drill-through", <<Filters(<<Year(2024)>>), Entry("limit", VInt(2))>>),
      Step("CubeOperations", "rotate", <<>>) }

KpiSteps ==
    { Step("KPICalculator", "yoy_growth", <<>>),
      Step("KPICalculator", "yoy_growth", <<Entry("dimension", VId("region"))>>),
      Step("KPICalculator", "yoy_growth", <<Entry("dimension", VId("planet"))>>),
      Step("KPICalculator", "yoy_growth", <<Entry("dimension", VNone), Filters(<<Planet>>)>>),
      Step("KPICalculator", "compare_periods",
           <<Entry("period_a", VDict(<<Year(2023)>>)), Entry("period_b", VDict(<<Year(2024)>>)),
             Entry("group_by", VId("region"))>>),
      Step("KPICalculator", "compare_periods",
           <<Entry("period_a", VDict(<<Year(2022)>>)), Entry("period_b", VDict(<<Year(2023)>>)),
             Entry("group_by", VId("region"))>>),
      Step("KPICalculator", "compare_periods",
           <<Entry("period_a", VDict(<<Year(1999)>>)), Entry("period_b", VDict(<<Year(2023)>>)),
             Entry("group_by", VId("region"))>>),
      Step("KPICalculator", "compare_periods",
           <<Entry("period_a", VDict(<<Year(2023)>>)), Entry("period_b", VDict(<<Year(2024)>>)),
             Entry("group_by", VNone)>>),
      Step("KPICalculator", "compare_periods",
           <<Entry("period_a", VDict(<<Year(2023)>>)), Entry("period_b", VDict(<<Year(2024)>>)),
             Entry("group_by", VId("planet"))>>),
      Step("KPICalculator", "top_n",
           <<Entry("n", VInt(3)), Entry("dimension", VId("country")),
             Entry("measure", VId("revenue"))>>),
      Step("KPICalculator", "TOP-N",
           <<Entry("n", VInt(2)), Entry("dimension", VId("region")),
             Entry("measure", VId("profit_margin")), Filters(<<Planet>>)>>),
      Step("KPICalculator", "top_n",
           <<Entry("n", VInt(0)), Entry("dimension", VId("category")),
             Entry("measure", VId("profit"))>>),
      Step("KPICalculator", "top_n",
           <<Entry("n", VInt(-1)), Entry("dimension", VId("country")),
             Entry("measure", VId("revenue"))>>),
      Step("KPICalculator", "top_n",
           <<Entry("n", VInt(3)), Entry("dimension", VId("planet")),
             Entry("measure", VId("revenue"))>>),
      Step("KPICalculator", "top_n",
           <<Entry("n", VInt(3)), Entry("dimension", VId("country")),
             Entry("measure", VId("revenue")),
             Filters(<<Entry("year", Range("lte", 2023))>>)>>),
      Step("KPICalculator", "profit_margins", <<Entry("dimension", VId("region"))>>),
      Step("KPICalculator", "profit_margins", <<Entry("dimension", VId("planet"))>>),
      Step("KPICalculator", "mom_change", <<Year(2024)>>),
      Step("KPICalculator", "summary", <<>>),
      Step("KPICalculator", "forecast", <<>>) }

AnomalySteps ==
    { Step("AnomalyDetection", "Monthly", <<>>),
      Step("AnomalyDetection", "product_anomaly", <<>>),
      Step("AnomalyDetection", "monthly_anomaly", <<>>) }

AgentSteps == NavigatorSteps \cup CubeSteps \cup KpiSteps \cup AnomalySteps

\* one iteration of `for step in steps` over the fact table db, the step
\* being one of AgentSteps
RunAgentStep(c, db) ==
    \E step \in AgentSteps :
        \E o \in { OnDatabase(AgentRun(db, step), db) } :
            /\ pc[c] = "exec"
            /\ stepIdx[c] <= Len(StepList(plan[c][1]))
            /\ step = StepList(plan[c][1])[stepIdx[c]]
            /\ ExecStep(c, o)

AgentResponses == { LlmJson(PlanOf(<<s>>)) : s \in AgentSteps }

AgentNext ==
    \E c \in SeqClients :
        \/ \E r \in AgentResponses : CallLLM(c, r)
        \/ \E db \in Databases : RunAgentStep(c, db)
        \/ AppendUser(c)
        \/ AppendAssistant(c)

AgentSpec == ExecInit /\ [][AgentNext]_vars

-----------------------------------------------------------------------------
(* Properties of the agents, over AgentSpec: one client, plans of one step *)

\* agent.run has been called for the step of the plan
AgentRan == run_log["a"] # <<>>

\* the step of the plan, its operation as run reads it, and its parameters
RanStep == GivenSteps("a")[1]

RanAgent == AgentName(RanStep).id

RanOperation == Underscored(LowerId(Operation(RanStep).id))

RanParameters == Get(RanStep, "parameters", VDict(<<>>))

\* what agent.run did for the step
Outcome == run_log["a"][1]

\* the filter dicts the operation of a step hands to its filter compiler,
\* one per query: the periods of compare_periods, the "filter" of slice,
\* the "filters" of the other operations that take filters
FilterSets(step) ==
    LET agent == AgentName(step).id
        op == Underscored(LowerId(Operation(step).id))
        p == Get(step, "parameters", VDict(<<>>))
    IN  IF agent = "DimensionNavigator" /\ op \in {"drill_down", "roll_up", "group"}
        THEN <<Get(p, "filters", VDict(<<>>)).l>>
        ELSE IF agent = "CubeOperations" /\ op = "slice"
        THEN <<Get(p, "filter", VDict(<<>>)).l>>
        ELSE IF agent = "CubeOperations" /\ op \in {"dice", "pivot", "drill_through"}
        THEN <<Get(p, "filters", VDict(<<>>)).l>>
        ELSE IF agent = "KPICalculator" /\ op \in {"yoy_growth", "top_n", "profit_margins"}
        THEN <<Get(p, "filters", VDict(<<>>)).l>>
        ELSE IF agent = "KPICalculator" /\ op = "compare_periods"
        THEN << Get(p, "period_a", VDict(<<Year(2023)>>)).l,
                Get(p, "period_b", VDict(<<Year(2024)>>)).l >>
        ELSE <<>>

\* the dimension catalog of the agent of a step
CatalogOf(step) == IF AgentName(step).id = "CubeOperations" THEN CUBE_COL_MAP ELSE COL_MAP

\* the entries of a filter set whose key the catalog has
KnownEntries(catalog, filters) ==
    SelectSeq(filters, LAMBDA e : CatalogColumn(catalog, e.key) # "")

\* the number of values the entries of a filter set bind
RECURSIVE BindCount(_)
BindCount(entries) ==
    IF entries = <<>> THEN 0
    ELSE (IF Head(entries).val.t = "list" THEN Len(Head(entries).val.l) ELSE 1)
         + BindCount(Tail(entries))

\* C13: each filter compiler drops the entries whose key is not in the
\* dimension catalog: the compiled WHERE clause has one predicate per entry
\* with a known key, over the column of that key, and binds the values of
\* those entries only; the compilation does not raise (the query is sent),
\* and a filter set of unknown keys only compiles to the empty clause
\* without binds.
UnknownFilterKeysDropped ==
    (AgentRan /\ FilterSets(RanStep) # <<>>) =>
        /\ Outcome.queries # <<>>
        /\ \A k \in 1..Len(Outcome.queries) :
              LET known == KnownEntries(CatalogOf(RanStep), FilterSets(RanStep)[k])
                  where == Outcome.queries[k].where
              IN  /\ Len(where.conditions) = Len(known)
                  /\ \A j \in 1..Len(known) :
                        where.conditions[j].col = CatalogColumn(CatalogOf(RanStep), known[j].key)
                  /\ Len(where.params) = BindCount(known)
                  /\ (known = <<>> => where = NoWhere)

\* a filter set of an unknown key, a list of two regions and a year has been
\* compiled to two predicates binding three values, and the query has run
UnknownFilterKeysDroppedWitness ==
    /\ AgentRan
    /\ FilterSets(RanStep) # <<>>
    /\ Len(FilterSets(RanStep)[1]) = 3
    /\ FilterSets(RanStep)[1][1] = Planet
    /\ Len(Outcome.queries[1].where.conditions) = 2
    /\ Len(Outcome.queries[1].where.params) = 3
    /\ Outcome.kind = "ok"
    /\ Outcome.rows > 0

\* the operation names run serves by name, hyphens read as underscores:
\* the branches of the navigator and the cube agent, the keys of the KPI
\* dispatch table, and the names of the anomaly agent with the name
\* monthly_anomaly the interface lists
SupportedOperations(agent) ==
    CASE agent = "DimensionNavigator" -> {"drill_down", "roll_up", "group"}
      [] agent = "CubeOperations" -> {"slice", "dice", "pivot", "drill_through"}
      [] agent = "KPICalculator" ->
            {"yoy", "yoy_growth", "mom", "mom_change", "compare", "compare_periods",
             "top_n", "ranking", "margins", "profit_margins", "summary"}
      [] OTHER -> {"time_anomaly", "monthly", "monthly_anomaly", "product_anomaly", "product"}

\* C14: when the operation name of a step is not one its agent supports, run
\* returns an output with an error and sends no query, for each of the four
\* agents: no other operation is run in its place.
UnknownOperationRefused ==
    (AgentRan /\ RanOperation \notin SupportedOperations(RanAgent)) =>
        /\ Outcome.kind = "error"
        /\ Outcome.queries = <<>>

\* the grouping dimension names the operation of a step reads from its
\* parameters: "dimensions" of group, "group_by" of slice, dice and
\* compare_periods, "dimension" of top_n, profit_margins and yoy_growth
GroupingDimensions(step) ==
    LET agent == AgentName(step).id
        op == Underscored(LowerId(Operation(step).id))
        p == Get(step, "parameters", VDict(<<>>))
        One(v) == IF PyTruthy(v) THEN <<v>> ELSE <<>>
    IN  IF agent = "DimensionNavigator" /\ op = "group"
        THEN Items(Get(p, "dimensions", VList(<<VId("region")>>)))
        ELSE IF agent = "CubeOperations" /\ op = "slice"
        THEN Items(Get(p, "group_by", VList(<<VId("region")>>)))
        ELSE IF agent = "CubeOperations" /\ op = "dice"
        THEN Items(Get(p, "group_by", VList(<<VId("country")>>)))
        ELSE IF agent = "KPICalculator" /\ op = "top_n"
        THEN <<Get(p, "dimension", VId("country"))>>
        ELSE IF agent = "KPICalculator" /\ op = "profit_margins"
        THEN <<Get(p, "dimension", VId("category"))>>
        ELSE IF agent = "KPICalculator" /\ op = "yoy_growth"
        THEN One(Get(p, "dimension", VNone))
        ELSE IF agent = "KPICalculator" /\ op = "compare_periods"
        THEN One(Get(p, "group_by", VNone))
        ELSE <<>>

\* the step asks to group by a name that the catalog of its agent lacks
UnknownDimensionAsked(step) ==
    \E k \in 1..Len(GroupingDimensions(step)) :
        CatalogColumn(CatalogOf(step), GroupingDimensions(step)[k].id) = ""

\* C15: an operation asked to group by a dimension name that is not in the
\* dimension catalog gives an output with an error; it does not return the
\* result of a query grouped by another column or of an ungrouped query.
UnknownDimensionRejected ==
    (AgentRan /\ UnknownDimensionAsked(RanStep)) => Outcome.kind # "ok"

\* the step is one of the grouped query operations
GroupedQueryStep(step) ==
    LET agent == AgentName(step).id
        op == Underscored(LowerId(Operation(step).id))
    IN  \/ agent = "DimensionNavigator" /\ op \in {"drill_down", "roll_up", "group"}
        \/ agent = "CubeOperations" /\ op \in {"slice", "dice"}

\* the query of the step was accepted by the database and its filters match
\* no row of the fact table
NoRowMatches ==
    /\ Outcome.queries # <<>>
    /\ ~SqlRaises(Outcome.queries[1])
    /\ Filtered(Outcome.db, Outcome.queries[1].where) = <<>>

\* C16: when the filters match no fact row, each of drill_down, roll_up,
\* group, slice and dice returns an output without error whose table has no
\* rows, and the ledger entry process returns for the step has success true
\* and row_count 0.
EmptyResultIsSuccess ==
    (AgentRan /\ GroupedQueryStep(RanStep) /\ NoRowMatches) =>
        /\ Outcome.kind = "ok"
        /\ Outcome.rows = 0
        /\ result["a"].status = "returned" =>
              /\ result["a"].steps_executed[1].success
              /\ result["a"].steps_executed[1].row_count = 0

\* the to_level of a step is given and is not a level of its hierarchy
UnknownLevelAsked(step) ==
    LET p == Get(step, "parameters", VDict(<<>>))
    IN  /\ HasKey(p, "to_level")
        /\ LevelIndex(HierarchyOf(Get(p, "hierarchy", VId("time"))), Get(p, "to_level", VNone)) = 0

\* the step with its to_level replaced by the given level
WithLevel(step, level) ==
    LET p == Get(step, "parameters", VDict(<<>>))
    IN  VDict(<< Entry("agent", AgentName(step)),
                 Entry("operation", Operation(step)),
                 Entry("parameters",
                       VDict([k \in 1..Len(p.l) |->
                                IF p.l[k].key = "to_level" THEN Entry("to_level", VId(level))
                                ELSE p.l[k]])) >>)

GrowthReturned ==
    /\ AgentRan
    /\ RanAgent = "KPICalculator"
    /\ RanOperation = "yoy_growth"
    /\ Outcome.kind = "ok"
    /\ Outcome.rows > 0

\* record k of the table is the first of its series: the first record, or
\* the first of its partition
FirstOfSeries(data, k) ==
    k = 1 \/ Get(data[k], "dimension", VNone) # Get(data[k - 1], "dimension", VNone)

\* the revenue of the fact rows of a record's year, and partition if any,
\* that the filters of the query keep
SeriesRevenue(record) ==
    LET q == Outcome.queries[1]
        InSeries(row) ==
            /\ VInt(row.year) = Get(record, "year", VNone)
            /\ Len(q.group_cols) = 2 =>
                  ColumnValue(row, q.group_cols[1]) = Get(record, "dimension", VNone)
    IN  Sum(SelectSeq(Filtered(Outcome.db, q.where), InSeries), "revenue")

\* C18: in the table of yoy_growth each series is ordered by year, the
\* revenue of a point is that of its year (and partition); the first point
\* of a series has no growth value, also the first point of each partition;
\* a later point has the growth (current - previous) / previous * 100
\* rounded to 2 decimals over the point before it in its own series, and no
\* growth value when the previous revenue is zero.
GrowthOverPreviousYear ==
    GrowthReturned =>
        \A k \in 1..Len(Outcome.data) :
            LET record == Outcome.data[k]
                current == Num(record, "total_revenue")
                previous == Num(Outcome.data[k - 1], "total_revenue")
                growth == Get(record, "yoy_growth_pct", VInt(0))
            IN  /\ current = SeriesRevenue(record)
                /\ HasKey(record, "yoy_growth_pct")
                /\ IF FirstOfSeries(Outcome.data, k) THEN growth = VNone
                   ELSE /\ Num(Outcome.data[k - 1], "year") < Num(record, "year")
                        /\ IF previous = 0 THEN growth = VNone
                           ELSE growth = VInt(RoundDiv((current - previous) * 10000, previous))

\* the growth values of a table, in hundredths of a percent
GrowthValues(data) == [k \in 1..Len(data) |-> Get(data[k], "yoy_growth_pct", VInt(0))]

\* partitioned by region over five fact rows: Asia Pacific with revenues
\* 0 and 80 has no growth value at either point, Europe with revenues 100,
\* 150 and 120 has none, 50.00 and -20.00
GrowthOverPreviousYearWitness ==
    /\ GrowthReturned
    /\ Get(RanParameters, "dimension", VNone) = VId("region")
    /\ Len(Outcome.db) = 5
    /\ [k \in 1..Len(Outcome.data) |-> Num(Outcome.data[k], "total_revenue")]
           = <<0, 80, 100, 150, 120>>
    /\ GrowthValues(Outcome.data) = <<VNone, VNone, VNone, VInt(5000), VInt(-2000)>>

\* compare_periods has been run
CompareRan == AgentRan /\ RanAgent = "KPICalculator" /\ RanOperation = "compare_periods"

\* the percentage delta of a row of the comparison: revenue_change_pct of
\* a joined row, change_pct of the single row
DeltaPct(row) ==
    IF HasKey(row, "revenue_change_pct") THEN Get(row, "revenue_change_pct", VInt(0))
    ELSE Get(row, "change_pct", VInt(0))

\* the fact rows of period A have no revenue, or there are none
PeriodARevenueZero ==
    Sum(Filtered(Outcome.db, KpiBuildWhere(
            Get(RanParameters, "period_a", VDict(<<Year(2023)>>)).l)), "revenue") = 0

\* C19: in compare_periods a percentage delta over a period-A revenue of
\* zero is a missing value, in a joined row of the grouped form and in the
\* single row of the ungrouped form, and a period A without revenue or
\* without rows does not make the comparison raise.
ZeroBaseDeltaMissing ==
    CompareRan =>
        /\ PeriodARevenueZero => Outcome.kind = "ok"
        /\ \A k \in 1..Len(Outcome.data) :
              Num(Outcome.data[k], "revenue_a") = 0 => DeltaPct(Outcome.data[k]) = VNone

\* top_n has returned its table
TopNReturned ==
    /\ AgentRan
    /\ RanAgent = "KPICalculator"
    /\ RanOperation = "top_n"
    /\ Outcome.kind = "ok"

\* the fact rows of the group of a value of the grouping column that the
\* filters of the query keep
GroupOf(value) ==
    LET q == Outcome.queries[1]
    IN  SelectSeq(Filtered(Outcome.db, q.where),
                  LAMBDA row : ColumnValue(row, q.group_cols[1]) = value)

\* the values of the grouping column among the fact rows the filters keep
GroupValues ==
    LET q == Outcome.queries[1]
        rows == Filtered(Outcome.db, q.where)
    IN  { ColumnValue(rows[k], q.group_cols[1]) : k \in 1..Len(rows) }

\* C20: top_n with parameter N groups by the column of its dimension,
\* aggregates the measure (sum for revenue, profit, quantity and cost,
\* average otherwise) and returns the groups of the highest aggregates in
\* descending order with ranks 1..k, k the number of rows returned; the
\* table never has more than N rows, and N = 3 over 10 groups gives 3 rows.
TopNTruncated ==
    TopNReturned =>
        LET n == Get(RanParameters, "n", VInt(5)).i
            dimension == Get(RanParameters, "dimension", VId("country")).id
            measure == Get(RanParameters, "measure", VId("revenue")).id
            data == Outcome.data
            Value(k) == Get(data[k], "dimension", VNone)
        IN  /\ Len(data) <= n
            /\ (n = 3 /\ Cardinality(GroupValues) = 10) => Len(data) = 3
            /\ CatalogColumn(COL_MAP, dimension) # "" =>
                  Outcome.queries[1].group_cols = <<CatalogColumn(COL_MAP, dimension)>>
            /\ \A k \in 1..Len(data) :
                  /\ Get(data[k], "rank", VNone) = VInt(k)
                  /\ Value(k) \in GroupValues
                  /\ Num(data[k], "metric") = Metric(GroupOf(Value(k)), measure)
                  /\ k > 1 => Num(data[k - 1], "metric") >= Num(data[k], "metric")
                  /\ \A j \in 1..Len(data) : j # k => Value(j) # Value(k)
            /\ \A v \in GroupValues :
                  \/ \E k \in 1..Len(data) : Value(k) = v
                  \/ \A k \in 1..Len(data) :
                        Num(data[k], "metric") >= Metric(GroupOf(v), measure)
-----------------------------------------------------------------------------
(* The anomaly agent over fact tables that hold a series of monthly         *)
(* revenues or a set of subcategory margins                                 *)

\* the months of the monthly series
MaxMonths == 6

\* the subcategories of the margin table
MaxSubcategories == 4

MonthNames ==
    <<"January", "February", "March", "April", "May", "June", "July", "August",
      "September", "October", "November", "December">>

Subcategories == <<"Chairs", "Desks", "Laptops", "Phones", "Shirts", "Shoes">>

\* a row of fact_sales of 2024 joined with its dimension rows
Sale(month, subcategory, revenue, profit) ==
    [year |-> 2024, quarter |-> "Q1", quarter_num |-> 1, month |-> month,
     month_name |-> MonthNames[month], region |-> "Europe", country |-> "France",
     category |-> "Electronics", subcategory |-> subcategory,
     customer_segment |-> "Consumer", revenue |-> revenue, profit |-> profit,
     quantity |-> 1, cost |-> revenue - profit,
     profit_margin |-> IF revenue = 0 THEN 0 ELSE (profit * 100) \div revenue]

\* the sequences of at most n elements of a set
SeqsUpTo(S, n) == UNION { [1..k -> S] : k \in 0..n }

\* n times the number v
Repeat(v, n) == [k \in 1..n |-> v]

\* the series of monthly revenues, one sale per month: months without
\* revenue, then months of 10, then months of 3, at most MaxMonths in all
MonthlySeries ==
    { s \in { Repeat(0, a) \o Repeat(10, b) \o Repeat(3, c) :
                a \in 0..MaxMonths, b \in 0..MaxMonths, c \in 0..MaxMonths } :
        Len(s) <= MaxMonths }

\* the margin, in percent, a subcategory may have
Margins == {10, 12, 90}

\* the margins of the subcategories of the specification's example
ExampleMargins == <<10, 12, 11, 13, 90>>

MarginSeries == SeqsUpTo(Margins, MaxSubcategories) \cup {ExampleMargins}

\* the file of sales of a series of monthly revenues
MonthlyTable(series) == [k \in 1..Len(series) |-> Sale(k, "Phones", series[k], 0)]

\* the file of one sale of 100 per subcategory with the given margins
MarginTable(margins) == [k \in 1..Len(margins) |-> Sale(1, Subcategories[k], 100, margins[k])]

AnomalyDatabases ==
    { JoinedRows(RunEtl(MonthlyTable(s))) : s \in MonthlySeries }
        \cup { JoinedRows(RunEtl(MarginTable(m))) : m \in MarginSeries }

\* one iteration of `for step in steps` over the fact table db, the step
\* being one of AnomalySteps
RunAnomalyStep(c, db) ==
    \E step \in AnomalySteps :
        \E o \in { OnDatabase(AnomalyRun(db, Operation(step), Get(step, "parameters", VDict(<<>>))), db) } :
            /\ pc[c] = "exec"
            /\ stepIdx[c] <= Len(StepList(plan[c][1]))
            /\ step = StepList(plan[c][1])[stepIdx[c]]
            /\ ExecStep(c, o)

AnomalyResponses == { LlmJson(PlanOf(<<s>>)) : s \in AnomalySteps }

AnomalyNext ==
    \E c \in SeqClients :
        \/ \E r \in AnomalyResponses : CallLLM(c, r)
        \/ \E db \in AnomalyDatabases : RunAnomalyStep(c, db)
        \/ AppendUser(c)
        \/ AppendAssistant(c)

AnomalySpec == ExecInit /\ [][AnomalyNext]_vars

-----------------------------------------------------------------------------
(* Properties of the anomaly agent, over AnomalySpec *)

\* the monthly analysis ran and returned its table
MonthlyReturned == AgentRan /\ Outcome.kind = "ok" /\ Outcome.op = VId("monthly_anomaly")

\* the monthly revenues of the returned table
MonthlyRevenue == [k \in 1..Len(Outcome.data) |-> Num(Outcome.data[k], "monthly_revenue")]

\* n * (value - mean) for a value of a series of n numbers
Deviation(series, value) == Len(series) * value - Total(series)

\* a value lies more than 2 standard deviations of the population from the
\* mean of its series: (n * value - sum)^2 > 4 * (n * sum(v^2) - sum^2)
BeyondTwoSigma(series, value) ==
    Deviation(series, value) * Deviation(series, value) > 4 * Spread(series)

\* the step asks the anomaly agent for something other than the product analysis
MonthlyAsked ==
    AgentRan /\ RanAgent = "AnomalyDetection" /\ RanOperation \notin {"product_anomaly", "product"}

\* C21: monthly_anomaly flags a month exactly when its revenue lies more
\* than 2 standard deviations of the population from the population mean of
\* the monthly series, and labels it "High" above the mean and "Low" below,
\* every other month being "Normal"; so a series with one point more than 2
\* standard deviations above the mean has exactly that point flagged "High",
\* and a constant series of one month or more flags no month and does not
\* raise.
MonthlyFlagsByPopulationZ ==
    /\ MonthlyAsked /\ Outcome.db # <<>> /\ Spread([k \in 1..Len(Outcome.db) |-> Outcome.db[k].revenue]) = 0
           => MonthlyReturned
    /\ MonthlyReturned =>
           \A k \in 1..Len(Outcome.data) :
               LET row == Outcome.data[k]
                   beyond == BeyondTwoSigma(MonthlyRevenue, MonthlyRevenue[k])
                   above == Deviation(MonthlyRevenue, MonthlyRevenue[k]) > 0
               IN  /\ Get(row, "anomaly", VNone) = VBool(beyond)
                   /\ Get(row, "anomaly_type", VNone) =
                          VId(IF ~beyond THEN "Normal" ELSE IF above THEN "High" ELSE "Low")

\* the product analysis ran and returned its table
ProductReturned == AgentRan /\ Outcome.kind = "ok" /\ Outcome.op = VId("product_anomaly")

\* the average margins of the returned table, in hundredths of a percent
MarginOf == [k \in 1..Len(Outcome.data) |-> Num(Outcome.data[k], "avg_margin")]

\* the k-th smallest number of a series: fewer than k numbers lie below it
\* and at least k do not lie above it
OrderStatistic(s, k) ==
    CHOOSE v \in { s[j] : j \in 1..Len(s) } :
        /\ Cardinality({ j \in 1..Len(s) : s[j] < v }) < k
        /\ Cardinality({ j \in 1..Len(s) : s[j] <= v }) >= k

\* four times the quartile of a series of n numbers by linear interpolation:
\* at the position h = quarters * (n - 1) / 4 counted from 0, the order
\* statistic below h plus the fraction of h times the step to the next one
Quartile4(s, quarters) ==
    LET h4 == quarters * (Len(s) - 1)
        below == OrderStatistic(s, h4 \div 4 + 1)
        next == OrderStatistic(s, Min(h4 \div 4 + 2, Len(s)))
    IN  4 * below + (h4 % 4) * (next - below)

\* the label of a margin against the fences of its series, compared in
\* eighths: Q1 - 1.5 * IQR and Q3 + 1.5 * IQR
MarginLabel(s, margin) ==
    LET q1 == Quartile4(s, 1)
        q3 == Quartile4(s, 3)
    IN  IF 8 * margin > 2 * q3 + 3 * (q3 - q1) THEN "High margin"
        ELSE IF 8 * margin < 2 * q1 - 3 * (q3 - q1) THEN "Low margin"
        ELSE "Normal"

\* the sales of a subcategory in the fact table
SalesOf(subcategory) == SelectSeq(Outcome.db, LAMBDA r : r.subcategory = subcategory)

\* a margin in hundredths is the average of the margins of these sales,
\* rounded to the nearest hundredth
AverageOf(margin, sales) ==
    LET diff == Len(sales) * margin - 100 * Sum(sales, "profit_margin")
    IN  sales # <<>> /\ 2 * diff <= Len(sales) /\ -2 * diff <= Len(sales)

\* C22: product_anomaly returns one row per subcategory with its average
\* margin, takes Q1 and Q3 of these margins by linear interpolation between
\* order statistics and IQR = Q3 - Q1, and flags exactly the rows whose
\* margin is strictly outside [Q1 - 1.5 * IQR, Q3 + 1.5 * IQR], labelled
\* "High margin" above and "Low margin" below, all others "Normal"; for the
\* margins 10, 12, 11, 13, 90 only 90 is flagged, as "High margin".
ProductFlagsOutsideFences ==
    ProductReturned =>
        /\ { Get(Outcome.data[k], "subcategory", VNone).id : k \in 1..Len(Outcome.data) }
               = { Outcome.db[j].subcategory : j \in 1..Len(Outcome.db) }
        /\ \A k, j \in 1..Len(Outcome.data) :
               Get(Outcome.data[k], "subcategory", VNone) = Get(Outcome.data[j], "subcategory", VNone)
                   => k = j
        /\ \A k \in 1..Len(Outcome.data) :
               AverageOf(MarginOf[k], SalesOf(Get(Outcome.data[k], "subcategory", VNone).id))
        /\ \A k \in 1..Len(Outcome.data) :
               LET label == MarginLabel(MarginOf, MarginOf[k])
               IN  /\ Get(Outcome.data[k], "anomaly_type", VNone) = VId(label)
                   /\ Get(Outcome.data[k], "anomaly", VNone) = VBool(label # "Normal")
        /\ Outcome.db = MarginTable(ExampleMargins) =>
               \A k \in 1..Len(Outcome.data) :
                   Get(Outcome.data[k], "anomaly_type", VNone) =
                       VId(IF MarginOf[k] = 9000 THEN "High margin" ELSE "Normal")

\* the product analysis ran over the margins 10, 12, 11, 13, 90 and flagged
\* one of its five rows
ProductFlagsOutsideFencesWitness ==
    /\ ProductReturned
    /\ Outcome.db = MarginTable(ExampleMargins)
    /\ Cardinality({ k \in 1..Len(Outcome.data) :
                       Get(Outcome.data[k], "anomaly", VNone) = VBool(TRUE) }) = 1
    /\ \E k \in 1..Len(Outcome.data) :
           MarginOf[k] = 9000 /\ Get(Outcome.data[k], "anomaly_type", VNone) = VId("High margin")

-----------------------------------------------------------------------------
(* Properties of the grouped queries and of the filter compilers, over      *)
(* AgentSpec                                                                *)

\* a grouped query operation ran and returned its table
GroupedReturned == AgentRan /\ GroupedQueryStep(RanStep) /\ Outcome.kind = "ok"

\* the sales of a file that satisfy the filters of the query that was sent
MatchingSales(csv) ==
    { i \in 1..Len(csv) :
        Satisfies(csv[i], Outcome.queries[1].where.conditions, Outcome.queries[1].where.params) }

\* the returned groups that hold the values a sale has in the grouping
\* columns of the query
GroupsOf(sale) ==
    { k \in 1..Len(Outcome.data) :
        \A j \in 1..Len(Outcome.queries[1].group_cols) :
            LET col == Outcome.queries[1].group_cols[j]
            IN  Get(Outcome.data[k], Unqualified(col), VNone) = ColumnValue(sale, col) }

\* C23: for drill_down, roll_up, group, slice and dice, whatever the
\* filters, each sale of the loaded file that satisfies the filters belongs
\* to exactly one returned group, the transactions count of a group is the
\* number of such sales in it, and so the counts sum to the number of sales
\* that satisfy the filters: the join with the four dimension tables loses
\* no sale and repeats none.
TransactionsCounted ==
    GroupedReturned =>
        /\ \E csv \in CsvFiles : Outcome.db = JoinedRows(RunEtl(csv))
        /\ \A csv \in CsvFiles :
               Outcome.db = JoinedRows(RunEtl(csv)) =>
                   /\ \A i \in MatchingSales(csv) : Cardinality(GroupsOf(csv[i])) = 1
                   /\ \A k \in 1..Len(Outcome.data) :
                          Num(Outcome.data[k], "transactions") =
                              Cardinality({ i \in MatchingSales(csv) : k \in GroupsOf(csv[i]) })
                   /\ Total([k \in 1..Len(Outcome.data) |-> Num(Outcome.data[k], "transactions")])
                          = Cardinality(MatchingSales(csv))

\* a grouped query with filters that some sales of the file satisfy and
\* others do not returned several groups, one of them of several sales
TransactionsCountedWitness ==
    /\ GroupedReturned
    /\ Outcome.queries[1].where.conditions # <<>>
    /\ Len(Outcome.data) >= 2
    /\ \E k \in 1..Len(Outcome.data) : Num(Outcome.data[k], "transactions") >= 2
    /\ \E csv \in CsvFiles :
           /\ Outcome.db = JoinedRows(RunEtl(csv))
           /\ Cardinality(MatchingSales(csv)) < Len(csv)
           /\ Cardinality(MatchingSales(csv)) >= 3

\* the number of values bound before the j-th of the entries
BindsBefore(entries, j) == BindCount(SubSeq(entries, 1, j - 1))

\* the predicate and the bind values the rules give for a filter value, in
\* priority order: a list gives membership binding its elements, a range
\* object with gte, or else with lte, gives that inequality binding the
\* bound of the range, and anything else gives equality binding the value
RuleFor(val) ==
    IF val.t = "list" THEN [op |-> "in", binds |-> Items(val)]
    ELSE IF val.t = "dict" /\ HasKey(val, "gte")
    THEN [op |-> ">=", binds |-> <<Get(val, "gte", VNone)>>]
    ELSE IF val.t = "dict" /\ HasKey(val, "lte")
    THEN [op |-> "<=", binds |-> <<Get(val, "lte", VNone)>>]
    ELSE [op |-> "=", binds |-> <<val>>]

\* C24: in every operation that takes filters (drill_down, roll_up, group;
\* slice, dice, pivot, drill_through; top_n, yoy_growth, profit_margins,
\* compare_periods) each entry with a known key is compiled by the rules in
\* the order list, range, equality: a list to a membership predicate, a
\* range object with gte or lte to a one-sided inequality that binds the
\* bound of the range, anything else to an equality; so no range object is
\* bound as an equality value.
RangeCompiledAsInequality ==
    (AgentRan /\ FilterSets(RanStep) # <<>> /\ Len(Outcome.queries) = Len(FilterSets(RanStep))) =>
        \A k \in 1..Len(Outcome.queries) :
            LET known == KnownEntries(CatalogOf(RanStep), FilterSets(RanStep)[k])
                where == Outcome.queries[k].where
            IN  /\ Len(where.conditions) = Len(known)
                /\ \A j \in 1..Len(known) :
                       LET rule == RuleFor(known[j].val)
                           first == BindsBefore(known, j) + 1
                       IN  /\ where.conditions[j].op = rule.op
                           /\ where.conditions[j].n = Len(rule.binds)
                           /\ first + Len(rule.binds) - 1 <= Len(where.params)
                           /\ SubSeq(where.params, first, first + Len(rule.binds) - 1) = rule.binds

\* the values an entry may bind under the rules: the elements of a list in
\* their order, else the value itself or the bound of a range object
BindsOf(val) ==
    IF val.t = "list" THEN {Items(val)}
    ELSE {<<val>>} \cup (IF val.t = "dict" /\ HasKey(val, "gte") THEN {<<Get(val, "gte", VNone)>>}
                         ELSE IF val.t = "dict" /\ HasKey(val, "lte")
                         THEN {<<Get(val, "lte", VNone)>>} ELSE {})

\* C25: for every filter set an operation compiles, the WHERE clause has as
\* many "?" placeholders as the bind list has values; the binds are those of
\* the entries with a known key, in the order of the entries, a list giving
\* one bind per element in the order of the list and any other value one
\* bind; entries with an unknown key move neither placeholders nor binds.
PlaceholdersMatchBinds ==
    (AgentRan /\ FilterSets(RanStep) # <<>>) =>
        \A k \in 1..Len(Outcome.queries) :
            LET known == KnownEntries(CatalogOf(RanStep), FilterSets(RanStep)[k])
                where == Outcome.queries[k].where
            IN  /\ Total([j \in 1..Len(where.conditions) |-> where.conditions[j].n])
                       = Len(where.params)
                /\ Len(where.conditions) = Len(known)
                /\ Len(where.params) = BindCount(known)
                /\ \A j \in 1..Len(known) :
                       LET first == BindsBefore(known, j) + 1
                           count == IF known[j].val.t = "list" THEN Len(known[j].val.l) ELSE 1
                       IN  /\ where.conditions[j].n = count
                           /\ SubSeq(where.params, first, first + count - 1) \in BindsOf(known[j].val)

\* a filter set of an entry with an unknown key, then a list of two or more
\* values, then a single value has been compiled and its query has returned
\* rows: two predicates, the binds being the list's elements and the value
PlaceholdersMatchBindsWitness ==
    /\ AgentRan
    /\ Outcome.kind = "ok"
    /\ Outcome.rows > 0
    /\ FilterSets(RanStep) # <<>>
    /\ LET entries == FilterSets(RanStep)[1]
           where == Outcome.queries[1].where
       IN  /\ Len(entries) = 3
           /\ CatalogColumn(CatalogOf(RanStep), entries[1].key) = ""
           /\ entries[2].val.t = "list" /\ Len(entries[2].val.l) >= 2
           /\ entries[3].val.t = "int"
           /\ where.params = Items(entries[2].val) \o <<entries[3].val>>
           /\ where.conditions[1].n = Len(entries[2].val.l)
           /\ where.conditions[2].n = 1

\* the columns from the coarsest level of a hierarchy down to a level of it
PrefixTo(hierarchy, level) ==
    CASE <<hierarchy, level>> = <<"time", "year">> -> <<"d.year">>
      [] <<hierarchy, level>> = <<"time", "quarter">> -> <<"d.year", "d.quarter">>
      [] <<hierarchy, level>> = <<"time", "month">> -> <<"d.year", "d.quarter", "d.month_name">>
      [] <<hierarchy, level>> = <<"geography", "region">> -> <<"g.region">>
      [] <<hierarchy, level>> = <<"geography", "country">> -> <<"g.region", "g.country">>
      [] <<hierarchy, level>> = <<"product", "category">> -> <<"p.category">>
      [] <<hierarchy, level>> = <<"product", "subcategory">> -> <<"p.category", "p.subcategory">>
      [] OTHER -> <<>>

\* the step with the other of the two operations drill_down and roll_up
OtherWay(step) ==
    VDict(<< Entry("agent", AgentName(step)),
             Entry("operation",
                   VId(IF Underscored(LowerId(Operation(step).id)) = "drill_down"
                       THEN "roll_up" ELSE "drill_down")),
             Entry("parameters", Get(step, "parameters", VDict(<<>>))) >>)

\* drill_down or roll_up ran
LevelStepRan ==
    AgentRan /\ RanAgent = "DimensionNavigator" /\ RanOperation \in {"drill_down", "roll_up"}

\* C26: for each hierarchy (time, geography, product) and each level L of
\* it, drill_down to L and roll_up to L group by the same columns, those of
\* the hierarchy from its coarsest level to L, coarse to fine; when to_level
\* is omitted or is not a level of the hierarchy the two differ, drill_down
\* grouping by all the columns of the hierarchy and roll_up by the coarsest
\* only.
SameColumnsToLevel ==
    LevelStepRan =>
        LET h == HierarchyOf(Get(RanParameters, "hierarchy", VId("time")))
            level == Get(RanParameters, "to_level", VNone)
            other == AgentRun(Outcome.db, OtherWay(RanStep))
            named == level.t = "id" /\ PrefixTo(h, level.id) # <<>>
        IN  /\ Len(Outcome.queries) = 1
            /\ Len(other.queries) = 1
            /\ named => /\ Outcome.queries[1].group_cols = PrefixTo(h, level.id)
                        /\ other.queries[1].group_cols = PrefixTo(h, level.id)
            /\ ~named => /\ Outcome.queries[1].group_cols # other.queries[1].group_cols
                         /\ Outcome.queries[1].group_cols =
                                IF RanOperation = "drill_down"
                                THEN PrefixTo(h, HierarchyLevels(h)[Len(HierarchyLevels(h))])
                                ELSE PrefixTo(h, HierarchyLevels(h)[1])

\* roll_up on the time hierarchy to the quarter has grouped by year and
\* quarter and returned rows
SameColumnsToLevelWitness ==
    /\ LevelStepRan
    /\ RanOperation = "roll_up"
    /\ Get(RanParameters, "hierarchy", VNone) = VId("time")
    /\ Get(RanParameters, "to_level", VNone) = VId("quarter")
    /\ Outcome.queries[1].group_cols = <<"d.year", "d.quarter">>
    /\ Outcome.kind = "ok"
    /\ Outcome.rows > 0

\* the sales of a period of the comparison: "period_a" or "period_b"
PeriodSales(period) ==
    Filtered(Outcome.db,
             KpiBuildWhere(Get(RanParameters, period,
                               VDict(<<Year(IF period = "period_a" THEN 2023 ELSE 2024)>>)).l))

\* the values of a column in a sequence of sales
ValuesIn(sales, col) == { ColumnValue(sales[k], col) : k \in 1..Len(sales) }

\* C28: compare_periods without a grouping dimension (group_by absent or
\* null) succeeds and returns exactly one row with the revenue of period A,
\* the revenue of period B, the change B - A and the percentage change;
\* with a grouping dimension it returns one row per value of the dimension
\* that has sales in both periods, and none for a value with sales in one
\* period only.
ComparePeriodsRows ==
    CompareRan =>
        LET group_by == Get(RanParameters, "group_by", VNone)
            col == IF group_by.t = "id" THEN CatalogColumn(COL_MAP, group_by.id) ELSE ""
            both == ValuesIn(PeriodSales("period_a"), col) \cap ValuesIn(PeriodSales("period_b"), col)
        IN  /\ group_by = VNone =>
                   /\ Outcome.kind = "ok"
                   /\ Len(Outcome.data) = 1
                   /\ Num(Outcome.data[1], "revenue_a") = Sum(PeriodSales("period_a"), "revenue")
                   /\ Num(Outcome.data[1], "revenue_b") = Sum(PeriodSales("period_b"), "revenue")
                   /\ Num(Outcome.data[1], "change")
                          = Sum(PeriodSales("period_b"), "revenue") - Sum(PeriodSales("period_a"), "revenue")
                   /\ HasKey(Outcome.data[1], "change_pct")
            /\ col # "" =>
                   /\ Outcome.kind = "ok"
                   /\ { Get(Outcome.data[k], "dimension", VNone) : k \in 1..Len(Outcome.data) } = both
                   /\ Len(Outcome.data) = Cardinality(both)

-----------------------------------------------------------------------------
(* Properties of the fallback planner, over FallbackSpec (continued) *)

\* the planner fell back on the rules for the text of client c and its plan
\* is about to be executed
FallbackPlanned(c) == pc[c] = "exec" /\ UsesFallback(llm[c])

\* the lower-cased text of the request of client c
QueryText(c) == Lower(Chars(req[c].query))

\* none of the comparison, drill, top and trend rules holds for the text q
BeforeSliceRule(q) ==
    \A k \in 1..4 : ~RuleTest(RuleOrder[k], q)

\* the first step of the plan of client c is the given operation of the cube agent
PlansCube(c, operation) ==
    /\ AgentName(StepList(plan[c][1])[1]) = VId("CubeOperations")
    /\ Operation(StepList(plan[c][1])[1]) = VId(operation)

\* C27: for a text that none of the comparison, drill, top and trend rules
\* matches, the keyword "slice" gives a CubeOperations slice step and the
\* keyword "dice" (without "slice") a CubeOperations dice step; with neither
\* keyword, exactly one detected filter gives slice and two or more give dice.
SliceDiceByKeywordFirst ==
    \A c \in SeqClients :
        LET q == QueryText(c)
            nfilters == Len(DetectedFilters(q))
        IN  (FallbackPlanned(c) /\ BeforeSliceRule(q)) =>
                /\ Contains(q, <<"s","l","i","c","e">>) => PlansCube(c, "slice")
                /\ Contains(q, <<"d","i","c","e">>) /\ ~Contains(q, <<"s","l","i","c","e">>) => PlansCube(c, "dice")
                /\ ~Contains(q, <<"s","l","i","c","e">>) /\ ~Contains(q, <<"d","i","c","e">>) /\ nfilters = 1
                       => PlansCube(c, "slice")
                /\ ~Contains(q, <<"s","l","i","c","e">>) /\ ~Contains(q, <<"d","i","c","e">>) /\ nfilters >= 2
                       => PlansCube(c, "dice")

\* the agents the orchestrator registers
AgentRegistry ==
    {"DimensionNavigator", "CubeOperations", "KPICalculator", "ReportGenerator",
     "Visualization", "AnomalyDetection"}

\* C29: every plan the fallback planner returns has exactly two steps: one
\* analytic step, that of the first rule that holds for the text or the
\* KPICalculator summary when none holds, and then the ReportGenerator
\* executive summary; each step names a registered agent, so the executor
\* skips none of them.
FallbackPlanTwoSteps ==
    \A c \in SeqClients :
        FallbackPlanned(c) =>
            LET steps == StepList(plan[c][1])
                rule == FirstHolding(QueryText(c))
            IN  /\ Len(steps) = 2
                /\ Operation(steps[1]).id \in RuleOperations(rule)
                /\ Operation(steps[1]) # VId("executive_summary")
                /\ rule = "none" => steps[1] = Step("KPICalculator", "summary", <<>>)
                /\ steps[2] = Step("ReportGenerator", "executive_summary", <<>>)
                /\ \A k \in 1..Len(steps) :
                       /\ AgentName(steps[k]).t = "id"
                       /\ AgentName(steps[k]).id \in AgentRegistry
                       /\ Resolves(steps[k])

\* the plan of a text that no rule holds for is the summary and the report
FallbackPlanTwoStepsWitness ==
    \E c \in SeqClients :
        /\ FallbackPlanned(c)
        /\ FirstHolding(QueryText(c)) = "none"
        /\ StepList(plan[c][1]) = << Step("KPICalculator", "summary", <<>>),
                                     Step("ReportGenerator", "executive_summary", <<>>) >>

\* the hierarchy and the level a drill_down step names
DrillTarget(step) ==
    << Get(Get(step, "parameters", VDict(<<>>)), "hierarchy", VNone),
       Get(Get(step, "parameters", VDict(<<>>)), "to_level", VNone) >>

\* C30: every drill_down step of a fallback plan names a hierarchy and a
\* level of that hierarchy, one of the pairs (time, quarter), (time, month),
\* (geography, country) and (product, subcategory), whatever keywords among
\* month, country and subcategory the text has; so the navigator never
\* falls back on its default for an unknown level.
DrillLevelExists ==
    \A c \in SeqClients :
        FallbackPlanned(c) =>
            \A k \in 1..Len(StepList(plan[c][1])) :
                LET step == StepList(plan[c][1])[k]
                IN  Operation(step) = VId("drill_down") =>
                        /\ AgentName(step) = VId("DimensionNavigator")
                        /\ DrillTarget(step) \in
                               { <<VId("time"), VId("quarter")>>, <<VId("time"), VId("month")>>,
                                 <<VId("geography"), VId("country")>>,
                                 <<VId("product"), VId("subcategory")>> }
                        /\ DrillTarget(step)[1].id \in {"time", "geography", "product"}
                        /\ LevelIndex(DrillTarget(step)[1].id, DrillTarget(step)[2]) # 0
                        /\ ~UnknownLevelAsked(step)

\* the plan of a text with drill, month, country and subcategory drills the
\* product hierarchy down to the subcategory
DrillLevelExistsWitness ==
    \E c \in SeqClients :
        /\ FallbackPlanned(c)
        /\ Contains(QueryText(c), <<"d","r","i","l","l">>)
        /\ Contains(QueryText(c), <<"m","o","n","t","h">>)
        /\ Contains(QueryText(c), <<"c","o","u","n","t","r">>)
        /\ Contains(QueryText(c), <<"s","u","b","c","a","t","e","g","o","r">>)
        /\ DrillTarget(StepList(plan[c][1])[1]) = <<VId("product"), VId("subcategory")>>

=============================================================================
